---- MODULE Spec2Model ----
(***************************************************************************)
(* Pipe-mania: the water-flow traversal (WaterFlowController), the score   *)
(* controller (ScoreController), the port resolver (getPorts) and the      *)
(* placement path of the GameController (handleTileSelected, tryPlacePipe, *)
(* PipesQueue, TileView), modelled from the TypeScript sources.            *)
(*                                                                         *)
(* Asynchrony: startWaterFlow() is an async function with one suspension   *)
(* point per tile (await animateTileFill).  Everything between two         *)
(* suspension points runs atomically (JavaScript run-to-completion; the    *)
(* continuation of the await is a microtask that runs right after the      *)
(* frame callback that resolved the promise).  The callbacks requested     *)
(* before a frame run back to back in that frame, in request order, all    *)
(* with the frame's timestamp; a callback requested during a frame runs in *)
(* the next one (requestAnimationFrame).                                   *)
(* tryPlacePipe suspends at `await tile.setPipe` when the tile has to load *)
(* a texture, and at `await this._onBeforeQueueShift`.                     *)
(***************************************************************************)
EXTENDS Integers, Sequences, FiniteSets, TLC

VARIABLES
  gridData,             \* GameController.gridData, read by the flow through getGridData()
  startTile,            \* GameController.startTile, read through getStartTile()
  isFlowing,            \* WaterFlowController.isFlowing
  activeAnimationFrame, \* WaterFlowController.activeAnimationFrame (0 = undefined, else the attempt owning the handle)
  hasFlowFrom,          \* WaterFlowController.hasFlowFrom : key -> the Set<Dir> object stored (index into dirSets)
  dirSets,              \* the Set<Dir> objects created by the traversal, by identity
  scoreController,      \* the ScoreController instance (its fields)
  attempts,             \* one record per startWaterFlow() invocation that began a flow (its locals)
  pendingFrames,        \* requestAnimationFrame callbacks not yet fired, in request order
  flowEvents,           \* payloads delivered to the onFlowComplete listener, oldest first
  stepCalls,            \* history: registerFlowStep calls since the last beginFlow, per key
  flowGain,             \* history: score gained by registerFlowStep since the last beginFlow
  acceptedSteps,        \* history: registerFlowStep calls accepted since the last beginFlow
  lastCall,             \* history: the last operation invoked and its outcome
  opCount,              \* number of ScoreController calls made directly (bounded by MaxOps)
  tiles,                \* GridView.tiles / blockedTiles: per key, what the TileView shows
  pipesQueue,           \* PipesQueue.pipes, front first
  inputLocked,          \* GameController.inputLocked
  placements,           \* one record per tile-selected event that entered tryPlacePipe (its locals)
  shifts,               \* history: per successful placement, the item written and the item removed
  config,               \* GameController.config (the fields the controller reads)
  stage,                \* GameController.stage
  rngGrid,              \* GameController.rngGrid
  rngStart,             \* GameController.rngStart
  rngQueue,             \* GameController.rngQueue
  queueRng,             \* PipesQueue.rng of the current queue
  layouts               \* history: per stage, the layouts its builds produced (seeded configurations)

vars == <<gridData, startTile, isFlowing, activeAnimationFrame, hasFlowFrom, dirSets,
          scoreController, attempts, pendingFrames, flowEvents, stepCalls,
          flowGain, acceptedSteps, lastCall, opCount,
          tiles, pipesQueue, inputLocked, placements, shifts,
          config, stage, rngGrid, rngStart, rngQueue, queueRng, layouts>>

gameVars == <<pipesQueue, inputLocked, placements, shifts>>

stageVars == <<config, stage, rngGrid, rngStart, rngQueue, queueRng, layouts>>

flowVars == <<gridData, startTile, isFlowing, activeAnimationFrame, hasFlowFrom, dirSets,
              attempts, pendingFrames, tiles, gameVars, stageVars>>

-----------------------------------------------------------------------------
(* Bounds *)

MaxAttempts == 2   \* startWaterFlow() calls that begin a flow, per behaviour
FillTicks == 2     \* fillDurationMs, in clock ticks
MaxOps == 5        \* direct ScoreController calls per behaviour
MaxCalls == 4      \* ScoreController calls per behaviour of the game over its stages
MaxTarget == 2     \* largest value passed to setTargetFlowLength
MaxPlacements == 2 \* tile-selected events that reach tryPlacePipe, per behaviour
QueueSize == 2     \* config.queue.queueSize
MaxCells == 4      \* largest rows * cols of a generated board
RngDenom == 4      \* rng() yields k / RngDenom, k in 0..RngDenom-1
PctDenom == 4      \* blocked percentages are multiples of 1 / PctDenom
MaxSeed == 1       \* seeds of seeded generators are 0..MaxSeed
MaxStage == 2      \* the stages entered are 1..MaxStage

-----------------------------------------------------------------------------
(* Directions, rotations, pipe catalogue *)

DIRS == <<"top", "right", "bottom", "left">>

Dir == {"top", "right", "bottom", "left"}

NoDir == "none"

OPPOSED_DIRS == [d \in Dir |->
  CASE d = "top" -> "bottom"
    [] d = "bottom" -> "top"
    [] d = "left" -> "right"
    [] d = "right" -> "left"]

PipeKind == {"empty", "straight", "curve", "cross", "start"}

NoKind == "undefined"

BASE_PORTS == [k \in PipeKind \ {"empty"} |->
  CASE k = "straight" -> <<"left", "right">>
    [] k = "curve" -> <<"right", "bottom">>
    [] k = "cross" -> <<"top", "right", "bottom", "left">>
    [] k = "start" -> <<"right">>]

IndexOfDir(dir) == (CHOOSE i \in 1..4 : DIRS[i] = dir) - 1

\* rotateDir turning against the clock
rotateDirCounter(dir, rot) == DIRS[((IndexOfDir(dir) + 4 - rot) % Len(DIRS)) + 1]

rotateDir(dir, rot) == DIRS[((IndexOfDir(dir) + rot) % Len(DIRS)) + 1]

getPorts(kind, rot) ==
  IF kind \notin DOMAIN BASE_PORTS
    THEN <<>>
    ELSE [i \in 1..Len(BASE_PORTS[kind]) |-> rotateDir(BASE_PORTS[kind][i], rot)]

\* PIPE_DEFINITIONS[kind].ports
getBasePorts(kind) ==
  CASE kind = "empty" -> <<>>
    [] kind = "straight" -> <<"left", "right">>
    [] kind = "curve" -> <<"right", "bottom">>
    [] kind = "cross" -> <<"top", "right", "bottom", "left">>
    [] kind = "start" -> <<"right">>

getMaxFlowVisitsUncapped(kind) ==
  CASE kind = "empty" -> 0
    [] kind = "straight" -> 1
    [] kind = "curve" -> 1
    [] kind = "cross" -> 3
    [] kind = "start" -> 0

getMaxFlowVisits(kind) ==
  CASE kind = "empty" -> 0
    [] kind = "straight" -> 1
    [] kind = "curve" -> 1
    [] kind = "cross" -> 2
    [] kind = "start" -> 0

Includes(seq, x) == \E i \in 1..Len(seq) : seq[i] = x

\* ports.find(dir => dir is none of `excluded`): the first such element, or
\* NoDir when there is none
Find(seq, excluded) ==
  IF \E i \in 1..Len(seq) : seq[i] \notin excluded
    THEN seq[CHOOSE i \in 1..Len(seq) :
               seq[i] \notin excluded /\ \A j \in 1..(i - 1) : seq[j] \in excluded]
    ELSE NoDir

-----------------------------------------------------------------------------
(* ScoreController *)

EmptyMap == [k \in {} |-> 0]

Min(x, y) == IF x < y THEN x ELSE y

toCoordinate(tile) == <<tile.col, tile.row>>

MapGet(m, key, default) == IF key \in DOMAIN m THEN m[key] ELSE default

MapSet(m, key, value) == [k \in DOMAIN m \cup {key} |-> IF k = key THEN value ELSE m[k]]

NewScoreController(reward, penalty, allowNegative) ==
  [flowTileReward |-> reward,
   replacementPenalty |-> penalty,
   targetFlowLength |-> 1,
   allowNegativeScore |-> allowNegative,
   score |-> 0,
   currentFlowTiles |-> EmptyMap,
   currentFlowDistance |-> 0,
   flowActive |-> FALSE]

applyScoreDeltaUnclamped(sc, delta) == [sc EXCEPT !.score = sc.score + delta]

applyScoreDelta(sc, delta) ==
  LET previous == sc.score
      sum == previous + delta
      next == IF ~sc.allowNegativeScore /\ sum < 0 THEN 0 ELSE sum
  IN IF previous = next THEN sc ELSE [sc EXCEPT !.score = next]

resetScore(sc) == [sc EXCEPT !.score = 0]

setTargetFlowLengthUnfloored(sc, length) ==
  IF ~length.finite
    THEN sc
    ELSE [sc EXCEPT !.targetFlowLength = length.halves \div 2]

\* length: [finite |-> Number.isFinite(length), halves |-> 2 * length]; the
\* model's numbers are multiples of 1/2, so Math.floor(length) = halves \div 2
setTargetFlowLength(sc, length) ==
  IF ~length.finite
    THEN sc
    ELSE LET floored == length.halves \div 2
             next == IF floored < 1 THEN 1 ELSE floored
         IN IF sc.targetFlowLength = next THEN sc ELSE [sc EXCEPT !.targetFlowLength = next]

\* the penalty charged for every placement
handlePipePlacementAlways(sc, wasReplacement) ==
  applyScoreDelta(sc, 0 - sc.replacementPenalty)

handlePipePlacement(sc, wasReplacement) ==
  IF ~wasReplacement THEN sc ELSE applyScoreDelta(sc, 0 - sc.replacementPenalty)

beginFlow(sc) ==
  [sc EXCEPT !.flowActive = TRUE, !.currentFlowTiles = EmptyMap, !.currentFlowDistance = 0]

registerFlowStepUnguarded(sc, tile, kind) ==
  LET key == toCoordinate(tile)
      currentVisits == MapGet(sc.currentFlowTiles, key, 0)
  IN IF currentVisits >= getMaxFlowVisits(kind)
       THEN sc
       ELSE applyScoreDelta(
              [sc EXCEPT !.currentFlowTiles = MapSet(sc.currentFlowTiles, key, currentVisits + 1),
                         !.currentFlowDistance = sc.currentFlowDistance + 1],
              sc.flowTileReward)

registerFlowStep(sc, tile, kind) ==
  IF ~sc.flowActive
    THEN sc
    ELSE LET key == toCoordinate(tile)
             currentVisits == MapGet(sc.currentFlowTiles, key, 0)
             maxVisits == getMaxFlowVisits(kind)
         IN IF currentVisits >= maxVisits
              THEN sc
              ELSE applyScoreDelta(
                     [sc EXCEPT !.currentFlowTiles = MapSet(sc.currentFlowTiles, key, currentVisits + 1),
                                !.currentFlowDistance = sc.currentFlowDistance + 1],
                     sc.flowTileReward)

\* the payload handed to the flow listener by completeFlow, as a sequence of
\* zero or one payloads
completeFlowPayloadStrict(sc, reason) ==
  IF ~sc.flowActive
    THEN <<>>
    ELSE << [reason |-> reason,
             totalTraversed |-> sc.currentFlowDistance,
             targetLength |-> sc.targetFlowLength,
             goalAchieved |-> sc.currentFlowDistance > sc.targetFlowLength] >>

completeFlowPayload(sc, reason) ==
  IF ~sc.flowActive
    THEN <<>>
    ELSE << [reason |-> reason,
             totalTraversed |-> sc.currentFlowDistance,
             targetLength |-> sc.targetFlowLength,
             goalAchieved |-> sc.currentFlowDistance >= sc.targetFlowLength] >>

completeFlow(sc, reason) ==
  IF ~sc.flowActive
    THEN sc
    ELSE [sc EXCEPT !.flowActive = FALSE, !.currentFlowTiles = EmptyMap, !.currentFlowDistance = 0]

-----------------------------------------------------------------------------
(* Grid *)

NoTile == [col |-> -1, row |-> -1, none |-> TRUE]

toKey(coord) == <<coord.col, coord.row>>

Coord(col, row) == [col |-> col, row |-> row, none |-> FALSE]

Tile(kind, rot) == [exists |-> TRUE, kind |-> kind, rot |-> rot, blocked |-> FALSE]

BlockedTile == [exists |-> TRUE, kind |-> NoKind, rot |-> -1, blocked |-> TRUE]

FreshTile == [exists |-> TRUE, kind |-> NoKind, rot |-> -1, blocked |-> FALSE]

\* what gridData[row]?.[col] yields outside the grid
UndefinedState == [exists |-> FALSE, kind |-> NoKind, rot |-> -1, blocked |-> FALSE]

InGrid(g, c) == c.row >= 0 /\ c.row < g.rows /\ c.col >= 0 /\ c.col < g.cols

\* gridData[c.row]?.[c.col]
StateAt(g, c) == IF InGrid(g, c) THEN g.cells[<<c.col, c.row>>] ELSE UndefinedState

\* state.rot ?? 0
RotOf(state) == IF state.rot = -1 THEN 0 ELSE state.rot

-----------------------------------------------------------------------------
(* GridView and TileView: what the controllers read and write through the  *)
(* grid port.  fillProgress is in ticks (FillTicks = progress 1).          *)

TileView(kind, rot, blocked) ==
  [currentKind |-> kind, currentRot |-> rot, fillProgress |-> 0, blocked |-> blocked]

\* the view of a board whose pipes have all been shown
ViewOf(g) ==
  [k \in DOMAIN g.cells |->
     IF g.cells[k].kind \in {NoKind, "empty"}
       THEN TileView(NoKind, 0, g.cells[k].blocked)
       ELSE TileView(g.cells[k].kind, RotOf(g.cells[k]), g.cells[k].blocked)]

\* GridView.setWaterFillProgress -> TileView.setWaterFillProgress: a tile
\* without a pipe keeps fillProgress 0
setWaterFillProgress(view, coord, progress) ==
  IF toKey(coord) \notin DOMAIN view
    THEN view
    ELSE IF view[toKey(coord)].currentKind = NoKind
      THEN [view EXCEPT ![toKey(coord)].fillProgress = 0]
      ELSE [view EXCEPT ![toKey(coord)].fillProgress = progress]

\* GridView.hasWaterFlow -> TileView.hasWaterFlow
hasWaterFlow(view, coord) ==
  toKey(coord) \in DOMAIN view /\ view[toKey(coord)].fillProgress > 0

\* GridView.isBlocked
isBlocked(view, coord) ==
  toKey(coord) \in DOMAIN view /\ view[toKey(coord)].blocked

HasPipe(state) == state.exists /\ state.kind # NoKind /\ state.kind # "empty"

-----------------------------------------------------------------------------
(* Random number generators.  A generator is Math.random (any value of     *)
(* [0, 1) at each call) or a seeded stream, whose n-th value depends on    *)
(* the seed and n only.  Values are k / RngDenom.  The seeded generator    *)
(* and the string hash follow the specification's description (additive    *)
(* increment, xor-shift and multiply passes; multiplicative xor hash) on   *)
(* words of 8 bits.                                                        *)

\* x >>> 0 keeps x modulo Word
Word == 2 ^ 8

RECURSIVE Xor(_, _)
Xor(a, b) ==
  IF a = 0 /\ b = 0
    THEN 0
    ELSE (((a % 2) + (b % 2)) % 2) + 2 * Xor(a \div 2, b \div 2)

MathRandom == [seeded |-> FALSE, seed |-> 0, n |-> 0]

createSeededRng(seed) == [seeded |-> TRUE, seed |-> seed % Word, n |-> 0]

\* the n-th value (n = 0, 1, ...) of createSeededRng(seed), as k of k / RngDenom
SeededValue(seed, n) ==
  LET a == (seed + (n + 1) * 117) % Word
      t1 == (Xor(a, a \div 8) * (2 * (a \div 2) + 1)) % Word
      t2 == Xor(t1, (t1 + ((Xor(t1, t1 \div 2) * (2 * (t1 \div 2) + 61)) % Word)) % Word)
      out == Xor(t2, t2 \div 4)
  IN (out * RngDenom) \div Word

\* rng(): the values the call may return, each with the generator afterwards
Draw(rng) ==
  IF rng.seeded
    THEN {[value |-> SeededValue(rng.seed, rng.n), rng |-> [rng EXCEPT !.n = @ + 1]]}
    ELSE {[value |-> k, rng |-> rng] : k \in 0..(RngDenom - 1)}

\* Math.floor(value * n) for a drawn value
FloorTimes(value, n) == (value * n) \div RngDenom

\* character codes of String(n), n >= 0
RECURSIVE DigitCodes(_)
DigitCodes(n) ==
  IF n < 10 THEN <<48 + n>> ELSE Append(DigitCodes(n \div 10), 48 + (n % 10))

\* the hash of the string with the given character codes
RECURSIVE hashStringToSeed(_)
hashStringToSeed(codes) ==
  IF codes = <<>>
    THEN 197
    ELSE (Xor(hashStringToSeed(SubSeq(codes, 1, Len(codes) - 1)), codes[Len(codes)] % Word) * 147)
           % Word

-----------------------------------------------------------------------------
(* Board builder *)

\* createEmptyGrid; buildInitialBoard returns gridData [] for invalid
\* dimensions
createEmptyGrid(rows, cols) ==
  IF rows <= 0 \/ cols <= 0
    THEN [rows |-> 0, cols |-> 0, cells |-> EmptyMap]
    ELSE [rows |-> rows, cols |-> cols,
          cells |-> [k \in (0..(cols - 1)) \X (0..(rows - 1)) |-> FreshTile]]

\* row by row, columns left to right
getAllCells(rows, cols) ==
  [i \in 1..(rows * cols) |-> Coord((i - 1) % cols, (i - 1) \div cols)]

\* the loop of shuffleCells from index i down to 1, indices counted from 0:
\* the orders it may leave, each with the generator afterwards
RECURSIVE ShuffleFrom(_, _, _)
ShuffleFrom(cells, i, rng) ==
  IF i <= 0
    THEN {[cells |-> cells, rng |-> rng]}
    ELSE UNION {
      LET j == Min(FloorTimes(d.value, i + 1), i)
      IN ShuffleFrom([cells EXCEPT ![i + 1] = cells[j + 1], ![j + 1] = cells[i + 1]],
                     i - 1, d.rng) :
      d \in Draw(rng)}

\* shuffleCells drawing from Math.random whatever generator it is given
shuffleCellsUnseeded(cells, rng) ==
  {[cells |-> sh.cells, rng |-> rng] : sh \in ShuffleFrom(cells, Len(cells) - 1, MathRandom)}

shuffleCells(cells, rng) == ShuffleFrom(cells, Len(cells) - 1, rng)

\* Math.floor(totalTiles * blockedTilesPercentage) without the cap
targetBlocksUncapped(totalTiles, pct) == (totalTiles * pct) \div PctDenom

\* Math.min(Math.floor(totalTiles * blockedTilesPercentage), maxBlockable),
\* the percentage being pct / PctDenom
targetBlocks(totalTiles, pct) ==
  Min((totalTiles * pct) \div PctDenom, IF totalTiles - 1 > 0 THEN totalTiles - 1 ELSE 0)

\* buildInitialBoard: the results it may return, each with the generator
\* afterwards
buildInitialBoard(rows, cols, pct, rng) ==
  IF rows <= 0 \/ cols <= 0
    THEN {[gridData |-> createEmptyGrid(rows, cols), blockedTiles |-> <<>>, rng |-> rng]}
    ELSE {LET blockedTiles == SubSeq(sh.cells, 1, targetBlocks(rows * cols, pct))
              grid == createEmptyGrid(rows, cols)
          IN [gridData |-> [grid EXCEPT !.cells = [k \in DOMAIN grid.cells |->
                              IF \E i \in 1..Len(blockedTiles) : toKey(blockedTiles[i]) = k
                                THEN [grid.cells[k] EXCEPT !.blocked = TRUE]
                                ELSE grid.cells[k]]],
              blockedTiles |-> blockedTiles,
              rng |-> sh.rng] :
            sh \in shuffleCells(getAllCells(rows, cols), rng)}

\* no GameController: its configuration is absent (rngSeed is <<>> when
\* undefined and <<seed>> when a number) and every generator is Math.random;
\* a PipesQueue holds the function that is GameController.rngQueue (shared)
\* or one with a stream of its own
NoStage ==
  /\ config = [rows |-> 0, cols |-> 0, rngSeed |-> <<>>, queueSize |-> 0, allowedPipes |-> <<>>,
               blockedPercentStart |-> 0, blockedPercentPerStage |-> 0,
               blockedPercentMax |-> 0,
               targetLengthStart |-> 0, targetLengthPerStage |-> 0, targetLengthMax |-> 0]
  /\ stage = 1
  /\ rngGrid = MathRandom
  /\ rngStart = MathRandom
  /\ rngQueue = MathRandom
  /\ queueRng = [shared |-> TRUE, own |-> MathRandom]
  /\ layouts = <<>>

-----------------------------------------------------------------------------
(* WaterFlowController: pure helpers *)

\* determineExitDirection without the branch for the cross
determineExitDirectionCrossAsOthers(kind, rot, incoming, filledDirs) ==
  LET ports == getPorts(kind, rot)
      candidate == Find(ports, {incoming} \cup filledDirs)
      other == Find(ports, {incoming})
  IN IF kind = "start"
       THEN ports[1]
       ELSE IF incoming = NoDir \/ ~Includes(ports, incoming)
         THEN NoDir
         ELSE IF candidate # NoDir
           THEN candidate
           ELSE IF other # NoDir THEN other ELSE incoming

\* determineExitDirection taking the first port for every kind but the cross
determineExitDirectionFirstPort(kind, rot, incoming, filledDirs) ==
  LET ports == getPorts(kind, rot)
      primary == OPPOSED_DIRS[incoming]
      alternate == Find(ports, {incoming, primary} \cup filledDirs)
  IN IF kind = "start"
       THEN ports[1]
       ELSE IF incoming = NoDir \/ ~Includes(ports, incoming)
         THEN NoDir
         ELSE IF kind = "cross"
           THEN IF primary \notin filledDirs
                  THEN primary
                  ELSE IF alternate # NoDir THEN alternate ELSE primary
           ELSE ports[1]

\* determineExitDirection without the test of the entry direction
determineExitDirectionAnyEntry(kind, rot, incoming, filledDirs) ==
  LET ports == getPorts(kind, rot)
      candidate == Find(ports, {incoming} \cup filledDirs)
      other == Find(ports, {incoming})
  IN IF kind = "start"
       THEN ports[1]
       ELSE IF candidate # NoDir
         THEN candidate
         ELSE IF other # NoDir THEN other ELSE incoming

determineExitDirection(kind, rot, incoming, filledDirs) ==
  LET ports == getPorts(kind, rot)
  IN IF kind = "start"
       THEN ports[1]
       ELSE IF incoming = NoDir \/ ~Includes(ports, incoming)
         THEN NoDir
         ELSE IF kind = "cross"
           THEN LET primary == OPPOSED_DIRS[incoming]
                    alternate == Find(ports, {incoming, primary} \cup filledDirs)
                IN IF primary \notin filledDirs
                     THEN primary
                     ELSE IF alternate # NoDir THEN alternate ELSE primary
           ELSE LET candidate == Find(ports, {incoming} \cup filledDirs)
                    other == Find(ports, {incoming})
                IN IF candidate # NoDir
                     THEN candidate
                     ELSE IF other # NoDir THEN other ELSE incoming

\* canEnterTile without the test of the ports
canEnterTileAnyPort(state, incoming) ==
  ~(~state.exists \/ state.blocked \/ state.kind = NoKind \/ state.kind = "empty")

canEnterTile(state, incoming) ==
  IF ~state.exists \/ state.blocked \/ state.kind = NoKind \/ state.kind = "empty"
    THEN FALSE
    ELSE Includes(getPorts(state.kind, RotOf(state)), incoming)

getNextCoordinates(current, exit) ==
  CASE exit = "left" -> Coord(current.col - 1, current.row)
    [] exit = "right" -> Coord(current.col + 1, current.row)
    [] exit = "top" -> Coord(current.col, current.row - 1)
    [] exit = "bottom" -> Coord(current.col, current.row + 1)
    [] OTHER -> NoTile

getOpposite(dir) == OPPOSED_DIRS[dir]

-----------------------------------------------------------------------------
(* The controllers' state as one value, so that a handler that calls other *)
(* methods is the composition of their effects.                            *)

World ==
  [isFlowing |-> isFlowing,
   activeAnimationFrame |-> activeAnimationFrame,
   hasFlowFrom |-> hasFlowFrom,
   dirSets |-> dirSets,
   sc |-> scoreController,
   attempts |-> attempts,
   pendingFrames |-> pendingFrames,
   frameQueue |-> <<>>,
   flowEvents |-> flowEvents,
   stepCalls |-> stepCalls,
   flowGain |-> flowGain,
   acceptedSteps |-> acceptedSteps,
   tiles |-> tiles]

Becomes(w) ==
  /\ isFlowing' = w.isFlowing
  /\ activeAnimationFrame' = w.activeAnimationFrame
  /\ hasFlowFrom' = w.hasFlowFrom
  /\ dirSets' = w.dirSets
  /\ scoreController' = w.sc
  /\ attempts' = w.attempts
  /\ pendingFrames' = w.pendingFrames
  /\ flowEvents' = w.flowEvents
  /\ stepCalls' = w.stepCalls
  /\ flowGain' = w.flowGain
  /\ acceptedSteps' = w.acceptedSteps
  /\ tiles' = w.tiles

NoCalls == [n |-> 0, kinds |-> {}]

\* scoreController.beginFlow()
WBeginFlow(w) ==
  [w EXCEPT !.sc = beginFlow(w.sc), !.stepCalls = EmptyMap, !.flowGain = 0, !.acceptedSteps = 0]

\* scoreController.registerFlowStep({ tile, kind })
WRegisterFlowStep(w, tile, kind) ==
  LET after == registerFlowStep(w.sc, tile, kind)
      key == toCoordinate(tile)
      before == MapGet(w.stepCalls, key, NoCalls)
  IN [w EXCEPT
        !.sc = after,
        !.stepCalls = IF w.sc.flowActive
                        THEN MapSet(w.stepCalls, key,
                                    [n |-> before.n + 1, kinds |-> before.kinds \cup {kind}])
                        ELSE w.stepCalls,
        !.flowGain = w.flowGain + (after.score - w.sc.score),
        !.acceptedSteps = w.acceptedSteps +
                            (IF after.currentFlowTiles # w.sc.currentFlowTiles THEN 1 ELSE 0)]

\* scoreController.completeFlow(reason), called by attempt id (0: called directly)
WCompleteFlow(w, id, reason) ==
  LET payload == completeFlowPayload(w.sc, reason)
  IN [w EXCEPT
        !.sc = completeFlow(w.sc, reason),
        !.flowEvents = IF payload = <<>>
                         THEN w.flowEvents
                         ELSE Append(w.flowEvents,
                                     [attempt |-> id,
                                      reason |-> payload[1].reason,
                                      totalTraversed |-> payload[1].totalTraversed,
                                      targetLength |-> payload[1].targetLength,
                                      goalAchieved |-> payload[1].goalAchieved])]

-----------------------------------------------------------------------------
(* WaterFlowController: the traversal *)

ReasonSet == {"missingPipe", "noExit", "outOfBounds", "disconnected", "manualStop"}

PortCall(call, c, progress, entry, exit) ==
  [call |-> call, col |-> c.col, row |-> c.row, progress |-> progress, entry |-> entry, exit |-> exit]

RemoveFrame(frames, id) == SelectSeq(frames, LAMBDA h : h # id)

\* the locals of a startWaterFlow() invocation that passed its guards, with
\* its history: the tiles it animated, each with the entry and the exit
\* direction (visited), and whether every earlier invocation had returned
\* when it began (alone)
NewAttempt(start) ==
  [status |-> "running",
   current |-> start,
   incoming |-> NoDir,
   exit |-> NoDir,
   filledDirs |-> 0,
   terminationReason |-> "manualStop",
   started |-> FALSE,
   elapsed |-> 0,
   next |-> NoTile,
   nextState |-> UndefinedState,
   tilesAnimated |-> 0,
   tileLog |-> <<>>,
   precededBy |-> PortCall("none", NoTile, -1, NoDir, NoDir),
   registered |-> 0,
   completedNonStart |-> 0,
   emitted |-> 0,
   stopRequested |-> FALSE,
   tilesAtStop |-> 0,
   visited |-> <<>>,
   alone |-> FALSE]

\* startWaterFlow, after the loop: cancel the stored frame handle, clear the
\* flag, report the reason
FinishFlow(w, id) ==
  LET handle == w.activeAnimationFrame
      w1 == IF handle # 0
              THEN [w EXCEPT !.pendingFrames = RemoveFrame(w.pendingFrames, handle),
                             !.frameQueue = RemoveFrame(w.frameQueue, handle),
                             !.activeAnimationFrame = 0]
              ELSE w
      w2 == [w1 EXCEPT !.isFlowing = FALSE]
      w3 == WCompleteFlow(w2, id, w.attempts[id].terminationReason)
  IN [w3 EXCEPT !.attempts[id].status = "done",
                !.attempts[id].emitted = Len(w3.flowEvents) - Len(w.flowEvents)]

\* leave the loop with a reason; next is the coordinate examined last, if any
Terminate(w, id, reason, next) ==
  FinishFlow([w EXCEPT !.attempts[id].terminationReason = reason,
                       !.attempts[id].next = next,
                       !.attempts[id].nextState = IF next.none THEN UndefinedState
                                                  ELSE StateAt(gridData, next)], id)

\* a frame handle that is handed out while the callback is never queued
requestAnimationFrameDropped(w, id) ==
  [w EXCEPT !.activeAnimationFrame = id]

\* this.activeAnimationFrame = requestAnimationFrame(step): the callback is
\* queued for the next frame; the handle is the attempt's id
requestAnimationFrame(w, id) ==
  [w EXCEPT !.activeAnimationFrame = id,
            !.pendingFrames = Append(w.pendingFrames, id)]

\* animateTileFill without its first two port calls
animateTileFillUnannounced(w, id, exit, setId) ==
  LET a == w.attempts[id]
  IN [w EXCEPT
        !.attempts[id].status = "awaiting",
        !.attempts[id].exit = exit,
        !.attempts[id].filledDirs = setId,
        !.attempts[id].started = FALSE,
        !.attempts[id].elapsed = 0,
        !.attempts[id].tilesAnimated = a.tilesAnimated + 1,
        !.attempts[id].visited =
           Append(a.visited, <<a.current.col, a.current.row, a.incoming, exit>>),
        !.attempts[id].tileLog = <<>>,
        !.activeAnimationFrame = id,
        !.pendingFrames = Append(w.pendingFrames, id)]

\* animateTileFill up to the point where the promise is returned; tileLog
\* holds the port calls made for the tile being animated, precededBy the port
\* call the attempt made just before them
animateTileFill(w, id, exit, setId) ==
  LET a == w.attempts[id]
  IN requestAnimationFrame([w EXCEPT
        !.attempts[id].status = "awaiting",
        !.attempts[id].exit = exit,
        !.attempts[id].filledDirs = setId,
        !.attempts[id].started = FALSE,
        !.attempts[id].elapsed = 0,
        !.attempts[id].tilesAnimated = a.tilesAnimated + 1,
        !.attempts[id].visited =
           Append(a.visited, <<a.current.col, a.current.row, a.incoming, exit>>),
        !.attempts[id].precededBy =
           IF a.tileLog = <<>> THEN a.precededBy ELSE a.tileLog[Len(a.tileLog)],
        !.attempts[id].tileLog =
           << PortCall("setWaterFlow", a.current, -1, a.incoming, NoDir),
              PortCall("setWaterFillProgress", a.current, 0, NoDir, NoDir) >>,
        !.tiles = setWaterFillProgress(w.tiles, a.current, 0)], id)

\* one pass of the while loop from its head to the await
LoopIteration(w, id) ==
  LET a == w.attempts[id]
      state == StateAt(gridData, a.current)
      tileKey == toKey(a.current)
      known == tileKey \in DOMAIN w.hasFlowFrom
      setId == IF known THEN w.hasFlowFrom[tileKey] ELSE Len(w.dirSets) + 1
      w1 == IF known THEN w ELSE [w EXCEPT !.dirSets = Append(w.dirSets, {})]
      exit == determineExitDirection(state.kind, RotOf(state), a.incoming, w1.dirSets[setId])
  IN IF ~w.isFlowing \/ a.current.none
       THEN FinishFlow(w, id)
       ELSE IF ~state.exists \/ state.kind = NoKind \/ state.kind = "empty"
         THEN Terminate(w, id, "missingPipe", NoTile)
         ELSE IF exit = NoDir
           THEN Terminate(w1, id, "noExit", NoTile)
           ELSE animateTileFill(w1, id, exit, setId)

\* `if (state.kind !== 'start')` before registerFlowStep
ScoresEveryKind(kind) == TRUE

ScoresKind(kind) == kind # "start"

\* what the loop does with the neighbour in the exit direction: leave with a
\* reason, or "continue" into it
NeighbourOutcomeUnset(next, nextState, incomingDir) ==
  IF next.none
    THEN "outOfBounds"
    ELSE IF ~canEnterTile(nextState, incomingDir) THEN "manualStop" ELSE "continue"

NeighbourOutcome(next, nextState, incomingDir) ==
  IF next.none
    THEN "outOfBounds"
    ELSE IF ~canEnterTile(nextState, incomingDir) THEN "disconnected" ELSE "continue"

\* the while loop resumed with the stop looked at after the tile was counted
ResumeAfterFillCountingStopped(w, id) ==
  LET a == w.attempts[id]
      state == StateAt(gridData, a.current)
      tileKey == toKey(a.current)
      w1 == [w EXCEPT !.dirSets[a.filledDirs] = @ \cup {a.exit},
                      !.hasFlowFrom = MapSet(w.hasFlowFrom, tileKey, a.filledDirs),
                      !.attempts[id].completedNonStart =
                         a.completedNonStart + (IF a.current = startTile THEN 0 ELSE 1)]
      w2 == IF ScoresKind(state.kind)
              THEN [WRegisterFlowStep(w1, a.current, state.kind) EXCEPT
                      !.attempts[id].registered = a.registered + 1]
              ELSE w1
      next == getNextCoordinates(a.current, a.exit)
      nextState == StateAt(gridData, next)
      incomingDir == getOpposite(a.exit)
      outcome == NeighbourOutcome(next, nextState, incomingDir)
  IN IF ~w.isFlowing
       THEN Terminate(w2, id, "manualStop", NoTile)
       ELSE IF outcome # "continue"
         THEN Terminate(w2, id, outcome, next)
         ELSE LoopIteration([w2 EXCEPT !.attempts[id].current = next,
                                       !.attempts[id].incoming = incomingDir], id)

\* the while loop from the resumption of the await to the next await
ResumeAfterFill(w, id) ==
  LET a == w.attempts[id]
      state == StateAt(gridData, a.current)
      tileKey == toKey(a.current)
      w1 == [w EXCEPT !.dirSets[a.filledDirs] = @ \cup {a.exit},
                      !.hasFlowFrom = MapSet(w.hasFlowFrom, tileKey, a.filledDirs),
                      !.attempts[id].completedNonStart =
                         a.completedNonStart + (IF a.current = startTile THEN 0 ELSE 1)]
      w2 == IF ScoresKind(state.kind)
              THEN [WRegisterFlowStep(w1, a.current, state.kind) EXCEPT
                      !.attempts[id].registered = a.registered + 1]
              ELSE w1
      next == getNextCoordinates(a.current, a.exit)
      nextState == StateAt(gridData, next)
      incomingDir == getOpposite(a.exit)
      outcome == NeighbourOutcome(next, nextState, incomingDir)
  IN IF ~w.isFlowing
       THEN Terminate(w, id, "manualStop", NoTile)
       ELSE IF outcome # "continue"
         THEN Terminate(w2, id, outcome, next)
         ELSE LoopIteration([w2 EXCEPT !.attempts[id].current = next,
                                       !.attempts[id].incoming = incomingDir], id)

\* `time - startTime`, capped where progress reaches 1; the first callback
\* sets startTime = time
Elapsed(a, dt) == IF a.started THEN Min(FillTicks, a.elapsed + dt) ELSE 0

\* the frame callback `step` of animateTileFill, dt ticks after the previous
\* frame, followed by the continuation of the await when it resolves
step(w, id, dt) ==
  LET a == w.attempts[id]
      elapsed == Elapsed(a, dt)
      finalize == PortCall("finalizeWaterSegment", a.current, -1, a.incoming, a.exit)
  IN IF ~w.isFlowing
       THEN ResumeAfterFill(
              [w EXCEPT !.attempts[id].tileLog =
                           a.tileLog \o << PortCall("setWaterFillProgress", a.current, FillTicks, NoDir, NoDir),
                                           finalize >>,
                        !.tiles = setWaterFillProgress(w.tiles, a.current, FillTicks),
                        !.attempts[id].status = "running",
                        !.activeAnimationFrame = 0], id)
       ELSE IF elapsed >= FillTicks
         THEN ResumeAfterFill(
                [w EXCEPT !.attempts[id].started = TRUE,
                          !.attempts[id].elapsed = elapsed,
                          !.attempts[id].tileLog =
                             a.tileLog \o << PortCall("setWaterFillProgress", a.current, elapsed, NoDir, NoDir),
                                             finalize >>,
                          !.tiles = setWaterFillProgress(w.tiles, a.current, elapsed),
                          !.attempts[id].status = "running",
                          !.activeAnimationFrame = 0], id)
         ELSE requestAnimationFrame(
                [w EXCEPT !.attempts[id].started = TRUE,
                          !.attempts[id].elapsed = elapsed,
                          !.attempts[id].tileLog =
                             Append(a.tileLog, PortCall("setWaterFillProgress", a.current, elapsed, NoDir, NoDir)),
                          !.tiles = setWaterFillProgress(w.tiles, a.current, elapsed)], id)

\* the callbacks of one frame, in request order
RECURSIVE RunFrame(_, _)
RunFrame(w, dt) ==
  IF w.frameQueue = <<>>
    THEN w
    ELSE RunFrame(step([w EXCEPT !.frameQueue = Tail(w.frameQueue)], Head(w.frameQueue), dt), dt)

-----------------------------------------------------------------------------
(* Boards the traversal runs on *)

CellChoices ==
  {FreshTile, Tile("empty", 0), BlockedTile, Tile("cross", 0),
   Tile("straight", 0), Tile("straight", 1), Tile("curve", 1), Tile("curve", 2)}

\* what the start coordinate holds when the board and the start coordinate
\* disagree: no pipe, or a pipe that is not the start pipe
StartCellChoices == {FreshTile, Tile("empty", 0), Tile("straight", 0)}

\* grid: the rows of gridData, each the sequence of its tiles
BoardOf(grid) ==
  [rows |-> Len(grid), cols |-> Len(grid[1]),
   cells |-> [k \in (0..(Len(grid[1]) - 1)) \X (0..(Len(grid) - 1)) |-> grid[k[2] + 1][k[1] + 1]]]

\* one row: the tile at (0,0) followed by a and b (b absent on the 1x2 board)
BoardRow2(s, a) == BoardOf(<< <<s, a>> >>)

BoardRow3(s, a, b) == BoardOf(<< <<s, a, b>> >>)

\* 2x2: start at (0,0) pointing right, a curve at (1,0) turning the water
\* down to c at (1,1); d at (0,1)
BoardTurn(c, d) ==
  BoardOf(<< <<Tile("start", 0), Tile("curve", 1)>>,
             <<d, c>> >>)

Boards ==
  {BoardRow2(Tile("start", r), Tile("straight", 0)) : r \in 0..3}
    \cup {BoardRow2(Tile("start", 0), a) : a \in CellChoices}
    \cup {BoardRow2(s, Tile("straight", 0)) : s \in StartCellChoices}
    \cup {BoardRow3(Tile("start", 0), Tile("cross", 0), b) : b \in CellChoices}
    \cup {BoardTurn(c, FreshTile) : c \in CellChoices}
    \cup {BoardTurn(Tile("curve", 2), Tile("straight", 0))}

-----------------------------------------------------------------------------
(* Specification of the flow: startWaterFlow(), stop() and animation frames *)

\* history of the last direct ScoreController call: the method, its reason
\* argument (completeFlow), its boolean argument or the flow-active flag it
\* found, its numeric argument in halves (setTargetFlowLength), and the score
\* and the number of events before it
CallOf(op, reason, flag, halves) ==
  [op |-> op, reason |-> reason, flag |-> flag, halves |-> halves,
   scoreBefore |-> scoreController.score, eventsBefore |-> Len(flowEvents)]

NoCall ==
  [op |-> "none", reason |-> "none", flag |-> FALSE, halves |-> 0,
   scoreBefore |-> 0, eventsBefore |-> 0]

Init ==
  /\ gridData \in Boards
  /\ startTile \in {Coord(0, 0), NoTile}
  /\ startTile.none => gridData = BoardRow2(Tile("start", 0), Tile("straight", 0))
  /\ isFlowing = FALSE
  /\ activeAnimationFrame = 0
  /\ hasFlowFrom = EmptyMap
  /\ dirSets = <<>>
  /\ scoreController = NewScoreController(10, 5, FALSE)
  /\ attempts = <<>>
  /\ pendingFrames = <<>>
  /\ flowEvents = <<>>
  /\ stepCalls = EmptyMap
  /\ flowGain = 0
  /\ acceptedSteps = 0
  /\ lastCall = NoCall
  /\ opCount = 0
  /\ tiles = ViewOf(gridData)
  /\ pipesQueue = <<>>
  /\ inputLocked = FALSE
  /\ placements = <<>>
  /\ shifts = <<>>
  /\ NoStage

\* startWaterFlow() while a flow is flagged: returns at once
StartWhileFlowing ==
  /\ isFlowing
  /\ UNCHANGED vars

\* startWaterFlow() flagging the flow before it looks for the start tile
StartFlaggedWithoutStartTile ==
  /\ ~isFlowing
  /\ startTile.none
  /\ isFlowing' = TRUE
  /\ UNCHANGED <<activeAnimationFrame, hasFlowFrom, dirSets, scoreController, attempts,
                 pendingFrames, flowEvents, stepCalls, flowGain, acceptedSteps, tiles,
                 gridData, startTile, lastCall, opCount, gameVars, stageVars>>

\* startWaterFlow() with no start tile configured: returns at once
StartWithoutStartTile ==
  /\ ~isFlowing
  /\ startTile.none
  /\ UNCHANGED vars

\* startWaterFlow() without hasFlowFrom.clear()
StartWaterFlowKeepingExits ==
  /\ ~isFlowing
  /\ ~startTile.none
  /\ Len(attempts) < MaxAttempts
  /\ LET id == Len(attempts) + 1
         w0 == World
         w1 == [w0 EXCEPT !.isFlowing = TRUE,
                          !.attempts = Append(w0.attempts,
                             [NewAttempt(startTile) EXCEPT
                                !.alone = \A j \in DOMAIN w0.attempts :
                                            w0.attempts[j].status = "done"])]
         w2 == WBeginFlow(w1)
     IN Becomes(LoopIteration(w2, id))
  /\ UNCHANGED <<gridData, startTile, lastCall, opCount, gameVars, stageVars>>

\* startWaterFlow() that begins a flow: runs to the first await, or to the end
StartWaterFlow ==
  /\ ~isFlowing
  /\ ~startTile.none
  /\ Len(attempts) < MaxAttempts
  /\ LET id == Len(attempts) + 1
         w0 == World
         w1 == [w0 EXCEPT !.isFlowing = TRUE,
                          !.hasFlowFrom = EmptyMap,
                          !.attempts = Append(w0.attempts,
                             [NewAttempt(startTile) EXCEPT
                                !.alone = \A j \in DOMAIN w0.attempts :
                                            w0.attempts[j].status = "done"])]
         w2 == WBeginFlow(w1)
     IN Becomes(LoopIteration(w2, id))
  /\ UNCHANGED <<gridData, startTile, lastCall, opCount, gameVars, stageVars>>

\* stop()
Stop ==
  /\ isFlowing' = FALSE
  /\ attempts' = [i \in DOMAIN attempts |->
                    IF attempts[i].status = "awaiting" /\ ~attempts[i].stopRequested
                      THEN [attempts[i] EXCEPT !.stopRequested = TRUE,
                                               !.tilesAtStop = attempts[i].tilesAnimated]
                      ELSE attempts[i]]
  /\ UNCHANGED <<gridData, startTile, activeAnimationFrame, hasFlowFrom, dirSets, scoreController,
                 pendingFrames, flowEvents, stepCalls, flowGain, acceptedSteps, lastCall, opCount,
                 tiles, gameVars, stageVars>>

\* the callbacks of an animation frame, dt ticks after the previous one:
\* every callback requested before it runs, oldest first
FrameCallbacks ==
  /\ pendingFrames # <<>>
  /\ \E dt \in 1..FillTicks :
       Becomes(RunFrame([World EXCEPT !.frameQueue = pendingFrames, !.pendingFrames = <<>>], dt))
  /\ UNCHANGED <<gridData, startTile, lastCall, opCount, pipesQueue, placements, shifts, stageVars>>

\* an animation frame with no listener that touches the game
AnimationFrame ==
  /\ FrameCallbacks
  /\ UNCHANGED inputLocked

Next ==
  \/ StartWhileFlowing
  \/ StartWithoutStartTile
  \/ StartWaterFlow
  \/ Stop
  \/ AnimationFrame

Spec == Init /\ [][Next]_vars

-----------------------------------------------------------------------------
(* The flow on boards with a closed loop, with animation frames that keep  *)
(* coming                                                                  *)

\* 2x3: the start at (0,0) feeds a cross at (1,0); three curves lead the
\* water from the cross's right arm round to its bottom arm
BoardLoop ==
  BoardOf(<< <<Tile("start", 0), Tile("cross", 0), Tile("curve", 1)>>,
             <<FreshTile, Tile("curve", 3), Tile("curve", 2)>> >>)

LiveBoards ==
  {BoardLoop,
   BoardRow3(Tile("start", 0), Tile("cross", 0), Tile("straight", 0)),
   BoardRow2(Tile("start", 0), Tile("straight", 0))}

InitLive ==
  /\ gridData \in LiveBoards
  /\ startTile \in {Coord(0, 0), NoTile}
  /\ startTile.none => gridData = BoardRow2(Tile("start", 0), Tile("straight", 0))
  /\ isFlowing = FALSE
  /\ activeAnimationFrame = 0
  /\ hasFlowFrom = EmptyMap
  /\ dirSets = <<>>
  /\ scoreController = NewScoreController(10, 5, FALSE)
  /\ attempts = <<>>
  /\ pendingFrames = <<>>
  /\ flowEvents = <<>>
  /\ stepCalls = EmptyMap
  /\ flowGain = 0
  /\ acceptedSteps = 0
  /\ lastCall = NoCall
  /\ opCount = 0
  /\ tiles = ViewOf(gridData)
  /\ pipesQueue = <<>>
  /\ inputLocked = FALSE
  /\ placements = <<>>
  /\ shifts = <<>>
  /\ NoStage

\* the browser keeps delivering animation frames while callbacks are pending:
\* WF_vars(AnimationFrame), written out.  A frame always changes the state (it
\* takes the callbacks off pendingFrames and advances or resolves each fill),
\* so ENABLED <<AnimationFrame>>_vars is pendingFrames # <<>>
FrameFairness ==
  \/ []<>(pendingFrames = <<>>)
  \/ []<><<AnimationFrame>>_vars

SpecLive == InitLive /\ [][Next]_vars /\ FrameFairness

-----------------------------------------------------------------------------
(* GameController: the placement path.  A tile-selected event runs          *)
(* handleTileSelected up to its first await that really suspends; each      *)
(* settling of an awaited promise runs the continuation up to the next one. *)

\* TileView.setPipe returns without loading a texture: same pipe already
\* shown, or kind 'empty' (clearPipe)
setPipeIsImmediate(view, coord, kind, rot) ==
  \/ kind = "empty"
  \/ /\ view[toKey(coord)].currentKind = kind
     /\ view[toKey(coord)].currentRot = rot

\* TileView.clearPipe
clearPipe(view, coord) ==
  IF view[toKey(coord)].currentKind = NoKind
    THEN view
    ELSE [view EXCEPT ![toKey(coord)].currentKind = NoKind,
                      ![toKey(coord)].currentRot = 0,
                      ![toKey(coord)].fillProgress = 0]

\* TileView.setPipe once it has its texture (or needs none)
setPipe(view, coord, kind, rot) ==
  IF view[toKey(coord)].currentKind = kind /\ view[toKey(coord)].currentRot = rot
    THEN view
    ELSE IF kind = "empty"
      THEN clearPipe(view, coord)
      ELSE [view EXCEPT ![toKey(coord)].currentKind = kind,
                        ![toKey(coord)].currentRot = rot]

\* this.gridData[row][col].kind = kind; this.gridData[row][col].rot = rot
WriteCell(g, coord, kind, rot) ==
  [g EXCEPT !.cells[toKey(coord)].kind = kind, !.cells[toKey(coord)].rot = rot]

\* PipeQueueItem objects, told apart by the order of their creation
PipeItem(kind, rot, id) == [kind |-> kind, rot |-> rot, id |-> id]

\* what createRandomPipeItem draws for the initial fill
DrawnPipes == {<<"straight", 0>>, <<"curve", 1>>}

\* what it draws afterwards: these items stay behind the front for as long
\* as MaxPlacements <= QueueSize, so one draw stands for all
LaterDraws == {<<"straight", 0>>}

\* fillPipesQueue at construction: any first item, and behind it the two
\* pipes in turn, so that neighbours in the queue differ
InitialQueues ==
  {q \in [1..QueueSize -> {PipeItem(d[1], d[2], 0) : d \in DrawnPipes}] :
     \A i \in 2..QueueSize : q[i] # q[i - 1]}

NumberItems(q) == [i \in DOMAIN q |-> [q[i] EXCEPT !.id = i]]

\* this.pipes[this.pipes.length - 1]
peekLastPipe(q) == q[Len(q)]

peekPipe(q) == q[1]

\* this.pipes.shift() alone
popPipe(q, drawn) == Tail(q)

\* popAndPushPipe with the item createRandomPipeItem draws
popAndPushPipe(q, drawn) == Append(Tail(q), drawn)

\* createRandomPipeItem: the items it may create, each with the generator
\* afterwards
createRandomPipeItem(allowedPipes, rng, id) ==
  UNION {{[item |-> PipeItem(allowedPipes[FloorTimes(d.value, Len(allowedPipes)) + 1],
                            FloorTimes(e.value, 4), id),
           rng |-> e.rng] : e \in Draw(d.rng)} :
         d \in Draw(rng)}

\* fillPipesQueue: the queues it may leave, each with the generator afterwards
RECURSIVE fillPipesQueue(_, _, _, _)
fillPipesQueue(pipes, size, allowedPipes, rng) ==
  IF Len(pipes) >= size
    THEN {[pipes |-> pipes, rng |-> rng]}
    ELSE UNION {fillPipesQueue(Append(pipes, c.item), size, allowedPipes, c.rng) :
                  c \in createRandomPipeItem(allowedPipes, rng, Len(pipes) + 1)}

\* new PipesQueue(...) without the checks of its arguments
PipesQueueUnchecked(size, rng, allowedPipes) ==
  IF allowedPipes = <<>>
    THEN {[pipes |-> <<>>, rng |-> rng]}
    ELSE fillPipesQueue(<<>>, size, allowedPipes, rng)

\* new PipesQueue(size, rng, allowedPipes): the queues it may construct, each
\* with the generator afterwards; none when the constructor throws
PipesQueue(size, rng, allowedPipes) ==
  IF size < 1 \/ allowedPipes = <<>>
    THEN {}
    ELSE fillPipesQueue(<<>>, size, allowedPipes, rng)

\* validateConfig for a configuration without flowAutoStart, rows and cols
\* given in halves (Number.isInteger: an even number of halves)
validateConfig(rows2, cols2) ==
  /\ rows2 % 2 = 0 /\ rows2 > 0
  /\ cols2 % 2 = 0 /\ cols2 > 0

\* resolvePlaceablePipes before it throws for an empty result
resolvePlaceablePipes(allowedPipes) == SelectSeq(allowedPipes, LAMBDA kind : kind # "start")

\* new GameController(grid, config) returns: validateConfig holds,
\* resolvePlaceablePipes and createPipesQueue do not throw
GameControllerConstructs(rows2, cols2, allowedPipes, queueSize) ==
  /\ validateConfig(rows2, cols2)
  /\ resolvePlaceablePipes(allowedPipes) # <<>>
  /\ PipesQueue(queueSize, MathRandom, resolvePlaceablePipes(allowedPipes)) # {}

canPlacePipeOnBlocked(coord) ==
  /\ ~inputLocked
  /\ InGrid(gridData, coord)
  /\ StateAt(gridData, coord).kind # "start"
  /\ ~hasWaterFlow(tiles, coord)

canPlacePipe(coord) ==
  /\ ~inputLocked
  /\ InGrid(gridData, coord)
  /\ StateAt(gridData, coord).kind # "start"
  /\ ~isBlocked(tiles, coord)
  /\ ~hasWaterFlow(tiles, coord)

\* the locals of one tryPlacePipe call; before (the tile state when the tile
\* was selected) and shown (tile.setPipe displayed the pipe) are history
Placement(coord, pipe, state, at) ==
  [coord |-> coord,
   pipe |-> pipe,
   wasReplacement |-> HasPipe(state),
   before |-> state,
   stage |-> at,
   shown |-> at = "beforeShift",
   prevKind |-> NoKind,
   prevRot |-> 0]

\* tryPlacePipe has returned (true: "placed", false: "failed"): its locals
\* are gone; wasReplacement is kept as history of a completed placement
Returned(p, at) ==
  [Placement(Coord(0, 0), PipeItem("empty", 0, 0), FreshTile, at)
     EXCEPT !.wasReplacement = at = "placed" /\ p.wasReplacement]

ClickCoords ==
  {Coord(k[1], k[2]) : k \in DOMAIN gridData.cells} \cup {Coord(gridData.cols, 0)}

\* a tile-selected event that canPlacePipe turns away
TileSelectedRefused ==
  /\ \E coord \in ClickCoords : ~canPlacePipe(coord)
  /\ UNCHANGED vars

\* a tile-selected event that passes canPlacePipe: tryPlacePipe up to
\* `await tile.setPipe(...)`, and on to the before-queue-shift callback when
\* the tile already shows that pipe
TileSelected ==
  /\ Len(placements) < MaxPlacements
  /\ \E coord \in ClickCoords :
       /\ canPlacePipe(coord)
       /\ LET pipe == peekPipe(pipesQueue)
              state == StateAt(gridData, coord)
          IN placements' = Append(placements,
               Placement(coord, pipe, state,
                         IF setPipeIsImmediate(tiles, coord, pipe.kind, pipe.rot)
                           THEN "beforeShift" ELSE "setPipe"))
  /\ UNCHANGED <<gridData, startTile, isFlowing, activeAnimationFrame, hasFlowFrom, dirSets,
                 scoreController, attempts, pendingFrames, flowEvents, stepCalls, flowGain,
                 acceptedSteps, lastCall, opCount, tiles, pipesQueue, inputLocked, shifts, stageVars>>

\* what Assets.load does in TileView.setPipe: it resolves with the texture,
\* resolves with none ('Asset not found', setPipe returns), or rejects
LoadOutcomes == {"texture", "noTexture", "rejected"}

\* the texture load of `await tile.setPipe(pipe.kind, pipe.rot)` settles: the
\* tile shows the pipe (or, without a texture, does not) and the callback is
\* called, or the load rejects and tryPlacePipe returns false
SetPipeSettles ==
  \E i \in DOMAIN placements : \E load \in LoadOutcomes :
    /\ placements[i].stage = "setPipe"
    /\ LET p == placements[i]
       IN CASE load = "texture" ->
                 /\ tiles' = setPipe(tiles, p.coord, p.pipe.kind, p.pipe.rot)
                 /\ placements' = [placements EXCEPT ![i].stage = "beforeShift",
                                                     ![i].shown = TRUE]
            [] load = "noTexture" ->
                 /\ tiles' = tiles
                 /\ placements' = [placements EXCEPT ![i].stage = "beforeShift"]
            [] load = "rejected" ->
                 /\ tiles' = tiles
                 /\ placements' = [placements EXCEPT ![i] = Returned(@, "failed")]
    /\ UNCHANGED <<gridData, startTile, isFlowing, activeAnimationFrame, hasFlowFrom, dirSets,
                   scoreController, attempts, pendingFrames, flowEvents, stepCalls, flowGain,
                   acceptedSteps, lastCall, opCount, pipesQueue, inputLocked, shifts, stageVars>>

\* `await this._onBeforeQueueShift(...)` resolves: the grid state is written,
\* the placement scored, the queue shifted
CallbackResolves ==
  \E i \in DOMAIN placements : \E d \in LaterDraws :
    /\ placements[i].stage = "beforeShift"
    /\ LET p == placements[i]
           created == QueueSize + Len(shifts)
       IN /\ gridData' = WriteCell(gridData, p.coord, p.pipe.kind, p.pipe.rot)
          /\ scoreController' = handlePipePlacement(scoreController, p.wasReplacement)
          /\ pipesQueue' = popAndPushPipe(pipesQueue, PipeItem(d[1], d[2], created + 1))
          /\ shifts' = Append(shifts, [placed |-> p.pipe, removed |-> peekPipe(pipesQueue), by |-> i])
          /\ placements' = [placements EXCEPT ![i] = Returned(@, "placed")]
    /\ UNCHANGED <<startTile, isFlowing, activeAnimationFrame, hasFlowFrom, dirSets,
                   attempts, pendingFrames, flowEvents, stepCalls, flowGain,
                   acceptedSteps, lastCall, opCount, tiles, inputLocked, stageVars>>

\* `await this._onBeforeQueueShift(...)` rejects: the catch block puts the
\* previous pipe back, up to a texture load for it
CallbackRejects ==
  \E i \in DOMAIN placements :
    /\ placements[i].stage = "beforeShift"
    /\ LET p == placements[i]
           state == StateAt(gridData, p.coord)
           prevKind == IF state.kind = NoKind THEN "empty" ELSE state.kind
           prevRot == RotOf(state)
       IN IF p.wasReplacement
            THEN IF setPipeIsImmediate(tiles, p.coord, prevKind, prevRot)
                   THEN /\ tiles' = setPipe(tiles, p.coord, prevKind, prevRot)
                        /\ gridData' = WriteCell(gridData, p.coord, prevKind, prevRot)
                        /\ placements' = [placements EXCEPT ![i] = Returned(@, "failed")]
                   ELSE /\ tiles' = tiles
                        /\ gridData' = gridData
                        /\ placements' = [placements EXCEPT ![i].stage = "restore",
                                                            ![i].prevKind = prevKind,
                                                            ![i].prevRot = prevRot]
            ELSE /\ tiles' = setPipe(tiles, p.coord, "empty", 0)
                 /\ gridData' = WriteCell(gridData, p.coord, "empty", 0)
                 /\ placements' = [placements EXCEPT ![i] = Returned(@, "failed")]
    /\ UNCHANGED <<startTile, isFlowing, activeAnimationFrame, hasFlowFrom, dirSets,
                   scoreController, attempts, pendingFrames, flowEvents, stepCalls, flowGain,
                   acceptedSteps, lastCall, opCount, pipesQueue, inputLocked, shifts, stageVars>>

\* the texture load of `await tile.setPipe(prevKind, prevRot)` in the catch
\* block settles; either way tryPlacePipe returns false
RestoreSettles ==
  \E i \in DOMAIN placements : \E load \in LoadOutcomes :
    /\ placements[i].stage = "restore"
    /\ LET p == placements[i]
       IN CASE load = "texture" ->
                 /\ tiles' = setPipe(tiles, p.coord, p.prevKind, p.prevRot)
                 /\ gridData' = WriteCell(gridData, p.coord, p.prevKind, p.prevRot)
            [] load = "noTexture" ->
                 /\ tiles' = tiles
                 /\ gridData' = WriteCell(gridData, p.coord, p.prevKind, p.prevRot)
            [] load = "rejected" ->
                 /\ tiles' = tiles
                 /\ gridData' = gridData
    /\ placements' = [placements EXCEPT ![i] = Returned(@, "failed")]
    /\ UNCHANGED <<startTile, isFlowing, activeAnimationFrame, hasFlowFrom, dirSets,
                   scoreController, attempts, pendingFrames, flowEvents, stepCalls, flowGain,
                   acceptedSteps, lastCall, opCount, pipesQueue, inputLocked, shifts, stageVars>>

\* an animation frame in the game: the scene's onFlowComplete listener
\* calls setInputEnabled(false) when the flow emits its completion
GameAnimationFrame ==
  /\ FrameCallbacks
  /\ inputLocked' = (inputLocked \/ Len(flowEvents') > Len(flowEvents))

\* GameController.startWaterFlow(), once per stage (the scene's countdown)
GameStartWaterFlow ==
  /\ attempts = <<>>
  /\ StartWaterFlow

\* a board as buildBoard leaves it: blocked cells, no pipes, and the start
\* tile with its exit towards a free cell.  2x2: start at (0,0) pointing
\* right, (1,0) and (1,1) free, (0,1) blocked
GameBoards ==
  {BoardOf(<< <<Tile("start", 0), FreshTile>>,
              <<BlockedTile, FreshTile>> >>)}

InitGame ==
  /\ gridData \in GameBoards
  /\ startTile = Coord(0, 0)
  /\ isFlowing = FALSE
  /\ activeAnimationFrame = 0
  /\ hasFlowFrom = EmptyMap
  /\ dirSets = <<>>
  /\ scoreController \in {NewScoreController(10, 5, allowNegative) : allowNegative \in BOOLEAN}
  /\ attempts = <<>>
  /\ pendingFrames = <<>>
  /\ flowEvents = <<>>
  /\ stepCalls = EmptyMap
  /\ flowGain = 0
  /\ acceptedSteps = 0
  /\ lastCall = NoCall
  /\ opCount = 0
  /\ tiles = ViewOf(gridData)
  /\ pipesQueue \in {NumberItems(q) : q \in InitialQueues}
  /\ inputLocked = FALSE
  /\ placements = <<>>
  /\ shifts = <<>>
  /\ NoStage

NextGame ==
  \/ TileSelectedRefused
  \/ TileSelected
  \/ SetPipeSettles
  \/ CallbackResolves
  \/ CallbackRejects
  \/ RestoreSettles
  \/ GameStartWaterFlow
  \/ GameAnimationFrame

SpecGame == InitGame /\ [][NextGame]_vars

-----------------------------------------------------------------------------
(* Connectivity analyzer *)

\* linkedNeighbors: a tile counts when its kind is set (`!tile.kind` is false
\* for every kind, 'empty' included) and it is not blocked
linkedNeighbors(g, node) ==
  LET me == StateAt(g, node)
  IN IF ~me.exists \/ me.kind = NoKind \/ me.blocked
       THEN <<>>
       ELSE LET Linked(dir) ==
                  LET neighbor == getNextCoordinates(node, dir)
                      other == StateAt(g, neighbor)
                  IN /\ InGrid(g, neighbor)
                     /\ other.kind # NoKind
                     /\ ~other.blocked
                     /\ Includes(getPorts(other.kind, RotOf(other)), OPPOSED_DIRS[dir])
                ports == SelectSeq(getPorts(me.kind, RotOf(me)), Linked)
            IN [i \in 1..Len(ports) |-> getNextCoordinates(node, ports[i])]

\* dfs(node, path) for each node of `nodes` in turn: the value of `best`
\* afterwards; the visited set holds the nodes of path
RECURSIVE dfs(_, _, _, _)
dfs(g, nodes, path, best) ==
  IF nodes = <<>>
    THEN best
    ELSE
      LET node == Head(nodes)
          tile == StateAt(g, node)
          pushed == Append(path, node)
          nextNodes == SelectSeq(linkedNeighbors(g, node), LAMBDA nb : ~Includes(pushed, nb))
          recorded == IF nextNodes = <<>> /\ Len(pushed) > Len(best) THEN pushed ELSE best
          after == IF Includes(path, node) \/ ~tile.exists \/ tile.kind = NoKind \/ tile.blocked
                     THEN best
                     ELSE dfs(g, nextNodes, pushed, recorded)
      IN dfs(g, Tail(nodes), path, after)

findLongestConnectedPath(g) == dfs(g, getAllCells(g.rows, g.cols), <<>>, <<>>)

-----------------------------------------------------------------------------
(* GameController: building the board and placing the start tile *)

\* the rotations whose exit points at a cell inside the grid that is not
\* blocked, in increasing order
getValidStartRotationsUnchecked(g, coord) ==
  SelectSeq(<<0, 1, 2, 3>>,
            LAMBDA rot : InGrid(g, getNextCoordinates(coord, getPorts("start", rot)[1])))

getValidStartRotations(g, coord) ==
  SelectSeq(<<0, 1, 2, 3>>,
            LAMBDA rot :
              LET next == getNextCoordinates(coord, getPorts("start", rot)[1])
              IN /\ InGrid(g, next)
                 /\ ~StateAt(g, next).blocked)

\* the while loop of placeStartTile, index counted from 0: the choices it
\* may end with (chosen is NoTile when the candidates run out), each with the
\* generator afterwards
RECURSIVE ChooseStart(_, _, _)
ChooseStart(g, candidates, rng) ==
  IF candidates = <<>>
    THEN {[chosen |-> NoTile, chosenRot |-> 0, rng |-> rng]}
    ELSE UNION {
      LET index == FloorTimes(d.value, Len(candidates))
          candidate == candidates[index + 1]
          validRotations == getValidStartRotations(g, candidate)
      IN IF validRotations = <<>>
           THEN ChooseStart(g, SubSeq(candidates, 1, index)
                                 \o SubSeq(candidates, index + 2, Len(candidates)), d.rng)
           ELSE {[chosen |-> candidate,
                  chosenRot |-> validRotations[FloorTimes(e.value, Len(validRotations)) + 1],
                  rng |-> e.rng] : e \in Draw(d.rng)} :
      d \in Draw(rng)}

\* placeStartTile up to `await this.grid.setPipe(...)`, the candidates being
\* the cells that are not blocked, row by row: the grid state and start tile
\* it may leave (startTile unchanged when no position is valid)
placeStartTile(g, start, rng) ==
  {IF c.chosen.none
     THEN [gridData |-> g, startTile |-> start, rng |-> c.rng]
     ELSE [gridData |-> WriteCell(g, c.chosen, "start", c.chosenRot),
           startTile |-> c.chosen,
           rng |-> c.rng] :
   c \in ChooseStart(g, SelectSeq(getAllCells(g.rows, g.cols),
                                  LAMBDA cell : ~StateAt(g, cell).blocked), rng)}

\* the view after buildBoard on tiles that show no pipe: clearAllBlocks,
\* then setAsBlocked for each of blockedTiles; the start tile shown if its
\* texture arrived; no water
BoardView(g, blockedTiles, start, load) ==
  [k \in DOMAIN g.cells |->
     LET blocked == \E i \in 1..Len(blockedTiles) : toKey(blockedTiles[i]) = k
     IN IF ~start.none /\ k = toKey(start) /\ load = "texture"
          THEN TileView("start", RotOf(g.cells[k]), blocked)
          ELSE TileView(NoKind, 0, blocked)]

\* getBlockedTilesPercentageForStage, in units of 1 / PctDenom
getBlockedTilesPercentageForStage(cfg, st) ==
  LET pct == cfg.blockedPercentStart + (IF st - 1 > 0 THEN st - 1 ELSE 0) * cfg.blockedPercentPerStage
      capped == Min(cfg.blockedPercentMax, pct)
  IN IF capped > 0 THEN capped ELSE 0

\* updateDifficultyForCurrentStage(): the target length of the stage, handed
\* to the score controller
updateDifficultyForCurrentStage(cfg, st, sc) ==
  LET computed == Min(cfg.targetLengthMax,
                      cfg.targetLengthStart + (IF st - 1 > 0 THEN st - 1 ELSE 0) * cfg.targetLengthPerStage)
  IN setTargetFlowLength(sc, [finite |-> TRUE, halves |-> 2 * computed])

\* buildBoard: the boards and start tiles it may leave, each with the two
\* generators afterwards
buildBoard(cfg, st, gridRng, startRng) ==
  UNION {{[gridData |-> placed.gridData, blockedTiles |-> b.blockedTiles,
           startTile |-> placed.startTile,
           rngGrid |-> b.rng, rngStart |-> placed.rng] :
          placed \in placeStartTile(b.gridData, NoTile, startRng)} :
         b \in buildInitialBoard(cfg.rows, cfg.cols,
                                 getBlockedTilesPercentageForStage(cfg, st), gridRng)}

\* initRngForStage: the three generators; 'grid:', 'start:' and 'queue:' are
\* given by their character codes
initRngForStage(cfg, st, rng) ==
  IF cfg.rngSeed = <<>>
    THEN [rngGrid |-> rng, rngStart |-> rng, rngQueue |-> rng]
    ELSE [rngGrid |-> createSeededRng(
            Xor(cfg.rngSeed[1], hashStringToSeed(<<103, 114, 105, 100, 58>> \o DigitCodes(st)))),
          rngStart |-> createSeededRng(
            Xor(cfg.rngSeed[1], hashStringToSeed(<<115, 116, 97, 114, 116, 58>> \o DigitCodes(st)))),
          rngQueue |-> createSeededRng(
            Xor(cfg.rngSeed[1], hashStringToSeed(<<113, 117, 101, 117, 101, 58>> \o DigitCodes(st))))]

-----------------------------------------------------------------------------
(* Specification of the GameController over its stages: constructed and    *)
(* initialised, then placements, setStage, advanceStage and resetStage.    *)
(* No before-queue-shift callback is registered and the textures are       *)
(* loaded, so that a placement has nothing to wait for.                    *)

\* square boards of at most MaxCells cells with a seed, and the board of
\* one cell without; the blocked share grows by 1 / PctDenom per stage up
\* to a half
Configs ==
  {cfg \in {[rows |-> n, cols |-> n, rngSeed |-> seed, queueSize |-> QueueSize,
             allowedPipes |-> <<"straight", "start">>,
             blockedPercentStart |-> 0, blockedPercentPerStage |-> 1,
             blockedPercentMax |-> PctDenom \div 2,
             targetLengthStart |-> 1, targetLengthPerStage |-> 1,
             targetLengthMax |-> MaxTarget] :
            n \in {k \in 1..MaxCells : k * k <= MaxCells},
            seed \in {<<>>} \cup {<<sd>> : sd \in 0..MaxSeed}} :
     cfg.rngSeed = <<>> => cfg.rows = 1}

\* what a build of a stage produced: the blocked cells, the start tile and
\* its rotation, the kinds and rotations of the queue
Layout(g, start, q) ==
  [blocked |-> {k \in DOMAIN g.cells : g.cells[k].blocked},
   startTile |-> start,
   rot |-> RotOf(StateAt(g, start)),
   queue |-> [i \in DOMAIN q |-> <<q[i].kind, q[i].rot>>]]

\* the history with one more entry of stage st; it is kept for a seeded
\* configuration
Entered(history, st, layout) ==
  IF config.rngSeed = <<>> THEN history ELSE [history EXCEPT ![st] = @ \cup {layout}]

\* new GameController(grid, config, Math.random) and init(), the textures
\* loaded
InitStage ==
  /\ config \in Configs
  /\ stage = 1
  /\ \E q \in PipesQueue(config.queueSize, initRngForStage(config, 1, MathRandom).rngQueue,
                          resolvePlaceablePipes(config.allowedPipes)) :
       \E b \in buildBoard(config, 1, initRngForStage(config, 1, MathRandom).rngGrid,
                           initRngForStage(config, 1, MathRandom).rngStart) :
         /\ pipesQueue = q.pipes
         /\ rngQueue = q.rng
         /\ gridData = b.gridData
         /\ startTile = b.startTile
         /\ rngGrid = b.rngGrid
         /\ rngStart = b.rngStart
         /\ tiles = BoardView(b.gridData, b.blockedTiles, b.startTile, "texture")
         /\ layouts = Entered([st \in 1..MaxStage |-> {}], 1,
                              Layout(b.gridData, b.startTile, q.pipes))
  /\ queueRng = [shared |-> TRUE, own |-> MathRandom]
  /\ isFlowing = FALSE
  /\ activeAnimationFrame = 0
  /\ hasFlowFrom = EmptyMap
  /\ dirSets = <<>>
  /\ scoreController = updateDifficultyForCurrentStage(config, 1, NewScoreController(10, 5, FALSE))
  /\ attempts = <<>>
  /\ pendingFrames = <<>>
  /\ flowEvents = <<>>
  /\ stepCalls = EmptyMap
  /\ flowGain = 0
  /\ acceptedSteps = 0
  /\ lastCall = NoCall
  /\ opCount = 0
  /\ inputLocked = FALSE
  /\ placements = <<>>
  /\ shifts = <<>>

\* setStage(next) and advanceStage() without initRngForStage()
EnterStageKeepingRng(next) ==
  /\ stage' = next
  /\ scoreController' = updateDifficultyForCurrentStage(config, next, scoreController)
  /\ lastCall' = [NoCall EXCEPT !.op = "setStage"]
  /\ UNCHANGED <<gridData, startTile, isFlowing, activeAnimationFrame, hasFlowFrom, dirSets,
                 attempts, pendingFrames, flowEvents, stepCalls, flowGain,
                 acceptedSteps, opCount, tiles, gameVars, config, layouts,
                 rngGrid, rngStart, rngQueue, queueRng>>

\* setStage(next) and advanceStage() that also clear the score
EnterStageResettingScore(next) ==
  /\ stage' = next
  /\ LET rngs == initRngForStage(config, next, MathRandom)
     IN /\ rngGrid' = rngs.rngGrid
        /\ rngStart' = rngs.rngStart
        /\ rngQueue' = rngs.rngQueue
  /\ queueRng' = [shared |-> FALSE, own |-> IF queueRng.shared THEN rngQueue ELSE queueRng.own]
  /\ scoreController' =
       resetScore(updateDifficultyForCurrentStage(config, next, scoreController))
  /\ lastCall' = [NoCall EXCEPT !.op = "setStage"]
  /\ UNCHANGED <<gridData, startTile, isFlowing, activeAnimationFrame, hasFlowFrom, dirSets,
                 attempts, pendingFrames, flowEvents, stepCalls, flowGain,
                 acceptedSteps, opCount, tiles, gameVars, config, layouts>>

\* setStage(next) and advanceStage(): the stage, its generators and its
\* target length; the queue keeps the generator it was constructed with
EnterStage(next) ==
  /\ stage' = next
  /\ LET rngs == initRngForStage(config, next, MathRandom)
     IN /\ rngGrid' = rngs.rngGrid
        /\ rngStart' = rngs.rngStart
        /\ rngQueue' = rngs.rngQueue
  /\ queueRng' = [shared |-> FALSE, own |-> IF queueRng.shared THEN rngQueue ELSE queueRng.own]
  /\ scoreController' = updateDifficultyForCurrentStage(config, next, scoreController)
  /\ lastCall' = [NoCall EXCEPT !.op = "setStage"]
  /\ UNCHANGED <<gridData, startTile, isFlowing, activeAnimationFrame, hasFlowFrom, dirSets,
                 attempts, pendingFrames, flowEvents, stepCalls, flowGain,
                 acceptedSteps, opCount, tiles, gameVars, config, layouts>>

SetStage == \E next \in 0..MaxStage : EnterStage(IF next > 1 THEN next ELSE 1)

AdvanceStage == stage < MaxStage /\ EnterStage(stage + 1)

\* resetStage() with a grid port whose clearAllBlocks() does nothing
ResetStageKeepingBlocks ==
  /\ lastCall.op = "setStage"
  /\ \E b \in buildBoard(config, stage, rngGrid, rngStart) :
       \E q \in PipesQueue(config.queueSize, rngQueue, resolvePlaceablePipes(config.allowedPipes)) :
         /\ gridData' = b.gridData
         /\ startTile' = b.startTile
         /\ rngGrid' = b.rngGrid
         /\ rngStart' = b.rngStart
         /\ tiles' = [k \in DOMAIN b.gridData.cells |->
                         [BoardView(b.gridData, b.blockedTiles, b.startTile, "texture")[k] EXCEPT
                            !.blocked = @ \/ isBlocked(tiles, Coord(k[1], k[2]))]]
         /\ pipesQueue' = q.pipes
         /\ rngQueue' = q.rng
         /\ layouts' = Entered(layouts, stage, Layout(b.gridData, b.startTile, q.pipes))
  /\ queueRng' = [shared |-> TRUE, own |-> MathRandom]
  /\ inputLocked' = FALSE
  /\ lastCall' = [NoCall EXCEPT !.op = "resetStage", !.flag = layouts[stage] # {}]
  /\ UNCHANGED <<isFlowing, activeAnimationFrame, hasFlowFrom, dirSets,
                 scoreController, attempts, pendingFrames, flowEvents, stepCalls, flowGain,
                 acceptedSteps, opCount, placements, shifts, config, stage>>

\* resetStage(), called as the scene calls it, after setStage or
\* advanceStage: the board is cleared and built again, the queue created
\* again, input enabled; lastCall.flag tells that the stage was entered
\* before
ResetStage ==
  /\ lastCall.op = "setStage"
  /\ \E b \in buildBoard(config, stage, rngGrid, rngStart) :
       \E q \in PipesQueue(config.queueSize, rngQueue, resolvePlaceablePipes(config.allowedPipes)) :
         /\ gridData' = b.gridData
         /\ startTile' = b.startTile
         /\ rngGrid' = b.rngGrid
         /\ rngStart' = b.rngStart
         /\ tiles' = BoardView(b.gridData, b.blockedTiles, b.startTile, "texture")
         /\ pipesQueue' = q.pipes
         /\ rngQueue' = q.rng
         /\ layouts' = Entered(layouts, stage, Layout(b.gridData, b.startTile, q.pipes))
  /\ queueRng' = [shared |-> TRUE, own |-> MathRandom]
  /\ inputLocked' = FALSE
  /\ lastCall' = [NoCall EXCEPT !.op = "resetStage", !.flag = layouts[stage] # {}]
  /\ UNCHANGED <<isFlowing, activeAnimationFrame, hasFlowFrom, dirSets,
                 scoreController, attempts, pendingFrames, flowEvents, stepCalls, flowGain,
                 acceptedSteps, opCount, placements, shifts, config, stage>>

\* a tile-selected event that passes canPlacePipe, and tryPlacePipe to its
\* end: the pipe at the front of the queue is shown and written, the
\* placement scored, the queue shifted with an item drawn from its generator;
\* at most MaxPlacements times, counted by opCount
PlacePipe ==
  /\ opCount < MaxPlacements
  /\ \E coord \in ClickCoords :
       /\ canPlacePipe(coord)
       /\ LET pipe == peekPipe(pipesQueue)
              rng == IF queueRng.shared THEN rngQueue ELSE queueRng.own
          IN /\ tiles' = setPipe(tiles, coord, pipe.kind, pipe.rot)
             /\ gridData' = WriteCell(gridData, coord, pipe.kind, pipe.rot)
             /\ scoreController' =
                  handlePipePlacement(scoreController, HasPipe(StateAt(gridData, coord)))
             /\ opCount' = opCount + 1
             /\ \E c \in createRandomPipeItem(resolvePlaceablePipes(config.allowedPipes), rng,
                                               QueueSize + opCount + 1) :
                  /\ pipesQueue' = popAndPushPipe(pipesQueue, c.item)
                  /\ rngQueue' = IF queueRng.shared THEN c.rng ELSE rngQueue
                  /\ queueRng' = IF queueRng.shared THEN queueRng
                                                    ELSE [queueRng EXCEPT !.own = c.rng]
  /\ UNCHANGED <<startTile, isFlowing, activeAnimationFrame, hasFlowFrom, dirSets,
                 attempts, pendingFrames, flowEvents, stepCalls, flowGain,
                 acceptedSteps, lastCall, inputLocked, placements, shifts,
                 config, stage, rngGrid, rngStart, layouts>>

\* setInputEnabled(enabled)
SetInputEnabled ==
  /\ \E enabled \in BOOLEAN : inputLocked' = ~enabled
  /\ UNCHANGED <<gridData, startTile, isFlowing, activeAnimationFrame, hasFlowFrom, dirSets,
                 scoreController, attempts, pendingFrames, flowEvents, stepCalls, flowGain,
                 acceptedSteps, lastCall, opCount, tiles, pipesQueue, placements, shifts,
                 stageVars>>

NextStage ==
  \/ SetStage
  \/ AdvanceStage
  \/ ResetStage
  \/ TileSelectedRefused
  \/ PlacePipe
  \/ SetInputEnabled

SpecStage == InitStage /\ [][NextStage]_vars

-----------------------------------------------------------------------------
(* Specification of the components called directly: the board builder,     *)
(* with the start tile placed on its board and the flow started; the pipe  *)
(* queue; the constructor of the GameController; the connectivity analyzer *)

InitBoard ==
  /\ gridData = createEmptyGrid(0, 0)
  /\ startTile = NoTile
  /\ isFlowing = FALSE
  /\ activeAnimationFrame = 0
  /\ hasFlowFrom = EmptyMap
  /\ dirSets = <<>>
  /\ scoreController = NewScoreController(10, 5, FALSE)
  /\ attempts = <<>>
  /\ pendingFrames = <<>>
  /\ flowEvents = <<>>
  /\ stepCalls = EmptyMap
  /\ flowGain = 0
  /\ acceptedSteps = 0
  /\ lastCall = NoCall
  /\ opCount = 0
  /\ tiles = EmptyMap
  /\ pipesQueue = <<>>
  /\ inputLocked = FALSE
  /\ placements = <<>>
  /\ shifts = <<>>
  /\ NoStage

\* the generators passed to the components: Math.random and seeded ones
Generators == {MathRandom} \cup {createSeededRng(seed) : seed \in 0..MaxSeed}

\* buildInitialBoard({rows, cols, blockedTilesPercentage, rng}) with invalid
\* dimensions or at most MaxCells cells
CallBuildInitialBoard ==
  /\ lastCall.op = "none"
  /\ \E rows, cols \in -1..MaxCells : \E pct \in 0..PctDenom : \E rng \in Generators :
       /\ rows <= 0 \/ cols <= 0 \/ rows * cols <= MaxCells
       /\ \E b \in buildInitialBoard(rows, cols, pct, rng) :
            /\ gridData' = b.gridData
            /\ tiles' = BoardView(b.gridData, b.blockedTiles, NoTile, "texture")
            /\ lastCall' = [op |-> "buildInitialBoard", rows |-> rows, cols |-> cols,
                            pct |-> pct, rng |-> rng, blockedTiles |-> b.blockedTiles]
  /\ UNCHANGED <<startTile, isFlowing, activeAnimationFrame, hasFlowFrom, dirSets,
                 scoreController, attempts, pendingFrames, flowEvents, stepCalls, flowGain,
                 acceptedSteps, opCount, gameVars, stageVars>>

\* placeStartTile on that board, as buildBoard calls it
CallPlaceStartTile ==
  /\ lastCall.op = "buildInitialBoard"
  /\ \E r \in placeStartTile(gridData, startTile, MathRandom) : \E load \in LoadOutcomes :
       /\ gridData' = r.gridData
       /\ startTile' = r.startTile
       /\ tiles' = BoardView(r.gridData, lastCall.blockedTiles, r.startTile, load)
       /\ lastCall' = [lastCall EXCEPT !.op = "placeStartTile"]
  /\ UNCHANGED <<isFlowing, activeAnimationFrame, hasFlowFrom, dirSets,
                 scoreController, attempts, pendingFrames, flowEvents, stepCalls, flowGain,
                 acceptedSteps, opCount, gameVars, stageVars>>

\* new PipesQueue(size, rng, allowedPipes); the queue keeps the generator
CallPipesQueue ==
  /\ lastCall.op = "none"
  /\ \E size \in -1..QueueSize : \E rng \in Generators :
       \E allowedPipes \in {<<>>, <<"straight">>, <<"curve", "cross">>} :
         LET made == PipesQueue(size, rng, allowedPipes)
             call == [op |-> "PipesQueue", size |-> size, allowedPipes |-> allowedPipes,
                      rng |-> rng, threw |-> made = {},
                      returned |-> PipeItem("empty", 0, 0), snapshot |-> <<>>]
         IN /\ lastCall' = call
            /\ IF made = {}
                 THEN UNCHANGED <<pipesQueue, queueRng>>
                 ELSE \E q \in made :
                        /\ pipesQueue' = q.pipes
                        /\ queueRng' = [shared |-> FALSE, own |-> q.rng]
  /\ UNCHANGED <<gridData, startTile, isFlowing, activeAnimationFrame, hasFlowFrom, dirSets,
                 scoreController, attempts, pendingFrames, flowEvents, stepCalls, flowGain,
                 acceptedSteps, tiles, opCount, inputLocked, placements, shifts,
                 config, stage, rngGrid, rngStart, rngQueue, layouts>>

\* true of the calls on a constructed queue
QueueConstructed ==
  /\ lastCall.op \in {"PipesQueue", "peekPipe", "popAndPushPipe", "snapshotPipes"}
  /\ ~lastCall.threw

CallPeekPipe ==
  /\ QueueConstructed
  /\ lastCall' = [lastCall EXCEPT !.op = "peekPipe", !.returned = peekPipe(pipesQueue)]
  /\ UNCHANGED <<gridData, startTile, isFlowing, activeAnimationFrame, hasFlowFrom, dirSets,
                 scoreController, attempts, pendingFrames, flowEvents, stepCalls, flowGain,
                 acceptedSteps, tiles, stageVars, opCount, gameVars>>

\* popAndPushPipe(), at most MaxPlacements times; opCount counts them
CallPopAndPushPipe ==
  /\ QueueConstructed
  /\ opCount < MaxPlacements
  /\ \E c \in createRandomPipeItem(lastCall.allowedPipes, queueRng.own,
                                    lastCall.size + opCount + 1) :
       /\ pipesQueue' = popAndPushPipe(pipesQueue, c.item)
       /\ queueRng' = [queueRng EXCEPT !.own = c.rng]
  /\ lastCall' = [lastCall EXCEPT !.op = "popAndPushPipe", !.returned = pipesQueue[1]]
  /\ opCount' = opCount + 1
  /\ UNCHANGED <<gridData, startTile, isFlowing, activeAnimationFrame, hasFlowFrom, dirSets,
                 scoreController, attempts, pendingFrames, flowEvents, stepCalls, flowGain,
                 acceptedSteps, tiles, inputLocked, placements, shifts,
                 config, stage, rngGrid, rngStart, rngQueue, layouts>>

CallSnapshotPipes ==
  /\ QueueConstructed
  /\ lastCall' = [lastCall EXCEPT !.op = "snapshotPipes", !.snapshot = pipesQueue]
  /\ UNCHANGED <<gridData, startTile, isFlowing, activeAnimationFrame, hasFlowFrom, dirSets,
                 scoreController, attempts, pendingFrames, flowEvents, stepCalls, flowGain,
                 acceptedSteps, tiles, stageVars, opCount, gameVars>>

\* findLongestConnectedPath(grid) on a grid of at most MaxCells cells
CallFindLongestConnectedPath ==
  /\ lastCall.op = "none"
  /\ \E rows, cols \in 1..MaxCells :
       /\ rows * cols <= MaxCells
       /\ \E cells \in [(0..(cols - 1)) \X (0..(rows - 1)) -> CellChoices \cup {Tile("start", 0)}] :
            /\ gridData' = [rows |-> rows, cols |-> cols, cells |-> cells]
            /\ lastCall' = [op |-> "findLongestConnectedPath",
                            path |-> findLongestConnectedPath(gridData')]
  /\ UNCHANGED <<startTile, isFlowing, activeAnimationFrame, hasFlowFrom, dirSets,
                 scoreController, attempts, pendingFrames, flowEvents, stepCalls, flowGain,
                 acceptedSteps, tiles, stageVars, opCount, gameVars>>

\* new GameController(grid, config), rows and cols given in halves
CallGameController ==
  /\ lastCall.op = "none"
  /\ \E rows2, cols2 \in {-2, 0, 1, 2, 3, 4} : \E queueSize \in 0..QueueSize :
       \E allowedPipes \in {<<>>, <<"start">>, <<"straight", "start">>, <<"curve", "cross">>} :
         lastCall' = [op |-> "GameController", rows2 |-> rows2, cols2 |-> cols2,
                      allowedPipes |-> allowedPipes, size |-> queueSize,
                      threw |-> ~GameControllerConstructs(rows2, cols2, allowedPipes, queueSize)]
  /\ UNCHANGED <<gridData, startTile, isFlowing, activeAnimationFrame, hasFlowFrom, dirSets,
                 scoreController, attempts, pendingFrames, flowEvents, stepCalls, flowGain,
                 acceptedSteps, tiles, stageVars, opCount, gameVars>>

\* getPorts(kind, rot)
CallGetPorts ==
  /\ lastCall.op = "none"
  /\ \E kind \in PipeKind : \E rot \in 0..3 :
       lastCall' = [op |-> "getPorts", kind |-> kind, rot |-> rot, ports |-> getPorts(kind, rot)]
  /\ UNCHANGED <<gridData, startTile, isFlowing, activeAnimationFrame, hasFlowFrom, dirSets,
                 scoreController, attempts, pendingFrames, flowEvents, stepCalls, flowGain,
                 acceptedSteps, tiles, stageVars, opCount, gameVars>>

\* determineExitDirection(kind, rot, incoming, filledDirs)
CallDetermineExitDirection ==
  /\ lastCall.op = "none"
  /\ \E kind \in PipeKind : \E rot \in 0..3 : \E incoming \in Dir \cup {NoDir} :
       \E filledDirs \in SUBSET Dir :
         lastCall' = [op |-> "determineExitDirection", kind |-> kind, rot |-> rot,
                      incoming |-> incoming, filledDirs |-> filledDirs,
                      exit |-> determineExitDirection(kind, rot, incoming, filledDirs)]
  /\ UNCHANGED <<gridData, startTile, isFlowing, activeAnimationFrame, hasFlowFrom, dirSets,
                 scoreController, attempts, pendingFrames, flowEvents, stepCalls, flowGain,
                 acceptedSteps, tiles, stageVars, opCount, gameVars>>

NextBoard ==
  \/ CallBuildInitialBoard
  \/ CallPlaceStartTile
  \/ CallPipesQueue
  \/ CallPeekPipe
  \/ CallPopAndPushPipe
  \/ CallSnapshotPipes
  \/ CallGameController
  \/ CallFindLongestConnectedPath
  \/ CallGetPorts
  \/ CallDetermineExitDirection
  \/ StartWithoutStartTile
  \/ GameStartWaterFlow
  \/ GameAnimationFrame

SpecBoard == InitBoard /\ [][NextBoard]_vars

-----------------------------------------------------------------------------
(* The flow, and determineExitDirection called by itself on a controller   *)
(* that has no start tile, where no flow begins                            *)

NextExit ==
  \/ Next
  \/ startTile.none /\ CallDetermineExitDirection

SpecExit == Init /\ [][NextExit]_vars

-----------------------------------------------------------------------------
(* Specification of the ScoreController alone: its public methods called   *)
(* in any order                                                            *)

ScoreTiles == {Coord(0, 0), Coord(1, 0)}

\* arguments of setTargetFlowLength: NaN/Infinity, and the multiples of 1/2
\* from -1/2 to MaxTarget + 1/2
TargetInputs ==
  {[finite |-> FALSE, halves |-> 0]}
    \cup {[finite |-> TRUE, halves |-> h] : h \in -1..(2 * MaxTarget + 1)}

InitScore ==
  /\ gridData = BoardRow2(Tile("start", 0), Tile("straight", 0))
  /\ startTile = NoTile
  /\ isFlowing = FALSE
  /\ activeAnimationFrame = 0
  /\ hasFlowFrom = EmptyMap
  /\ dirSets = <<>>
  /\ scoreController \in {NewScoreController(10, penalty, allowNegative) :
                            penalty \in {5, 50}, allowNegative \in BOOLEAN}
  /\ attempts = <<>>
  /\ pendingFrames = <<>>
  /\ flowEvents = <<>>
  /\ stepCalls = EmptyMap
  /\ flowGain = 0
  /\ acceptedSteps = 0
  /\ lastCall = NoCall
  /\ opCount = 0
  /\ tiles = ViewOf(gridData)
  /\ pipesQueue = <<>>
  /\ inputLocked = FALSE
  /\ placements = <<>>
  /\ shifts = <<>>
  /\ NoStage

ScoreCall(w, call) ==
  /\ opCount' = opCount + 1
  /\ lastCall' = call
  /\ scoreController' = w.sc
  /\ flowEvents' = w.flowEvents
  /\ stepCalls' = w.stepCalls
  /\ flowGain' = w.flowGain
  /\ acceptedSteps' = w.acceptedSteps
  /\ UNCHANGED flowVars

ScBeginFlow ==
  /\ opCount < MaxOps
  /\ ScoreCall(WBeginFlow(World), CallOf("beginFlow", "none", scoreController.flowActive, 0))

ScRegisterFlowStep ==
  /\ opCount < MaxOps
  /\ \E tile \in ScoreTiles, kind \in PipeKind :
    ScoreCall(WRegisterFlowStep(World, tile, kind),
              CallOf("registerFlowStep", "none", scoreController.flowActive, 0))

ScCompleteFlow ==
  /\ opCount < MaxOps
  /\ \E reason \in ReasonSet :
    ScoreCall(WCompleteFlow(World, 0, reason),
              CallOf("completeFlow", reason, scoreController.flowActive, 0))

ScHandlePipePlacement ==
  /\ opCount < MaxOps
  /\ \E wasReplacement \in BOOLEAN :
    ScoreCall([World EXCEPT !.sc = handlePipePlacement(scoreController, wasReplacement)],
              CallOf("handlePipePlacement", "none", wasReplacement, 0))

ScResetScore ==
  /\ opCount < MaxOps
  /\ ScoreCall([World EXCEPT !.sc = resetScore(scoreController)],
            CallOf("resetScore", "none", scoreController.flowActive, 0))

ScSetTargetFlowLength ==
  /\ opCount < MaxOps
  /\ \E length \in TargetInputs :
    ScoreCall([World EXCEPT !.sc = setTargetFlowLength(scoreController, length)],
              CallOf("setTargetFlowLength", "none", length.finite, length.halves))

NextScore ==
  \/ ScBeginFlow
  \/ ScRegisterFlowStep
  \/ ScCompleteFlow
  \/ ScHandlePipePlacement
  \/ ScResetScore
  \/ ScSetTargetFlowLength

SpecScore == InitScore /\ [][NextScore]_vars

-----------------------------------------------------------------------------
(* Specification of the score over flows and stages: the calls the flow    *)
(* and a placement make on the ScoreController, and the stage operations   *)
(* as the scene makes them once a flow has completed                       *)

\* GameController.resetScore()
ResetScore ==
  /\ scoreController' = resetScore(scoreController)
  /\ UNCHANGED <<flowVars, flowEvents, stepCalls, flowGain, acceptedSteps, lastCall, opCount>>

\* the flow's registerFlowStep for the straight at (1,0)
FlowStep ==
  /\ opCount < MaxCalls
  /\ ScoreCall(WRegisterFlowStep(World, Coord(1, 0), "straight"),
               CallOf("registerFlowStep", "none", scoreController.flowActive, 0))

\* the flow's completeFlow at a tile that does not connect
FlowEnds ==
  /\ opCount < MaxCalls
  /\ ScoreCall(WCompleteFlow(World, 0, "disconnected"),
               CallOf("completeFlow", "disconnected", scoreController.flowActive, 0))

\* a seeded 2x2 game
InitCarry ==
  /\ InitStage
  /\ config.rows = 2
  /\ config.rngSeed = <<0>>

NextCarry ==
  \/ ~scoreController.flowActive /\ SetStage
  \/ ~scoreController.flowActive /\ AdvanceStage
  \/ ResetStage
  \/ ResetScore
  \/ opCount < MaxCalls /\ ScBeginFlow
  \/ FlowStep
  \/ FlowEnds
  \/ opCount < MaxCalls /\ ScHandlePipePlacement

SpecCarry == InitCarry /\ [][NextCarry]_vars

-----------------------------------------------------------------------------
(* Claims about the traversal (checked under Spec) *)

Attempts == DOMAIN attempts

Done(i) == attempts[i].status = "done"

\* the completion events delivered for attempt i
EventsOf(i) == SelectSeq(flowEvents, LAMBDA e : e.attempt = i)

LastOf(seq) == seq[Len(seq)]

\* the in-flight tile was forced to full progress and then finalized
ForcedToFull(a) ==
  /\ Len(a.tileLog) >= 2
  /\ a.tileLog[Len(a.tileLog) - 1] = PortCall("setWaterFillProgress", a.current, FillTicks, NoDir, NoDir)
  /\ LastOf(a.tileLog) = PortCall("finalizeWaterSegment", a.current, -1, a.incoming, a.exit)

\* C1: at most one traversal is in progress at any time (no startWaterFlow()
\* begins a flow while an earlier traversal has not yet returned).
C1_AtMostOneTraversal ==
  Cardinality({i \in Attempts : ~Done(i)}) <= 1

\* C2: every flow attempt that has ended produced exactly one completion
\* event, carrying one of the five reasons.
C2_ExactlyOneCompletion ==
  \A i \in Attempts :
    Done(i) => /\ attempts[i].emitted = 1
               /\ Len(EventsOf(i)) = 1
               /\ EventsOf(i)[1].reason \in ReasonSet

\* C3: once stop() was called while an attempt's tile animation was in
\* flight, that attempt animates no further tile and, when it ends, the
\* in-flight tile was forced to progress 1 and finalized and the attempt
\* completed with manualStop.
C3_StopEndsAttempt ==
  \A i \in Attempts :
    attempts[i].stopRequested =>
      /\ attempts[i].tilesAnimated = attempts[i].tilesAtStop
      /\ Done(i) => /\ attempts[i].terminationReason = "manualStop"
                    /\ ForcedToFull(attempts[i])
                    /\ Len(EventsOf(i)) = 1
                    /\ EventsOf(i)[1].reason = "manualStop"

\* C4: an attempt that ended because the coordinate next to the current tile
\* in the exit direction lies outside the grid ended with outOfBounds.
C4_OutOfBoundsReason ==
  \A i \in Attempts :
    (Done(i) /\ ~attempts[i].next.none /\ ~InGrid(gridData, attempts[i].next))
      => attempts[i].terminationReason = "outOfBounds"

\* the neighbour the attempt examined last is inside the grid and is blocked,
\* or holds a pipe with no port facing back toward the current tile
NeighbourRefuses(a) ==
  /\ ~a.next.none
  /\ InGrid(gridData, a.next)
  /\ \/ a.nextState.blocked
     \/ /\ HasPipe(a.nextState)
        /\ ~Includes(getPorts(a.nextState.kind, RotOf(a.nextState)), OPPOSED_DIRS[a.exit])

\* C5: an attempt that ended at an in-grid neighbour that is blocked or has no
\* port facing back ended with disconnected, after the current tile was
\* finalized; if the current tile was the start tile, it reports
\* totalTraversed = 0.
C5_Disconnected ==
  \A i \in Attempts :
    (Done(i) /\ NeighbourRefuses(attempts[i])) =>
      /\ attempts[i].terminationReason = "disconnected"
      /\ LastOf(attempts[i].tileLog).call = "finalizeWaterSegment"
      /\ (attempts[i].tilesAnimated = 1 /\ attempts[i].current = startTile) =>
           \A k \in 1..Len(EventsOf(i)) : EventsOf(i)[k].totalTraversed = 0

C5_Witness ==
  \E i \in Attempts :
    /\ Done(i)
    /\ NeighbourRefuses(attempts[i])
    /\ attempts[i].nextState.blocked
    /\ attempts[i].terminationReason = "disconnected"
    /\ attempts[i].tilesAnimated = 1
    /\ attempts[i].current = startTile
    /\ Len(EventsOf(i)) = 1
    /\ EventsOf(i)[1].totalTraversed = 0

\* C6: an attempt that ended because the in-grid neighbour in the exit
\* direction holds no pipe (kind absent or 'empty') ended with missingPipe.
C6_MissingPipeReason ==
  \A i \in Attempts :
    (Done(i) /\ ~attempts[i].next.none /\ InGrid(gridData, attempts[i].next)
       /\ ~attempts[i].nextState.blocked /\ ~HasPipe(attempts[i].nextState))
      => attempts[i].terminationReason = "missingPipe"

\* C9: registerFlowStep was called once for each tile other than the start
\* tile whose animation completed without a stop, never for the start tile,
\* and an attempt that filled only the start tile reports totalTraversed = 0.
C9_StartNeverScored ==
  /\ \A i \in Attempts :
       /\ attempts[i].registered = attempts[i].completedNonStart
       /\ (Done(i) /\ attempts[i].tilesAnimated = 1 /\ attempts[i].current = startTile) =>
            \A k \in 1..Len(EventsOf(i)) : EventsOf(i)[k].totalTraversed = 0
  /\ ~startTile.none => toCoordinate(startTile) \notin DOMAIN stepCalls

C9_Witness ==
  \E i \in Attempts :
    /\ Done(i)
    /\ attempts[i].tilesAnimated = 2
    /\ attempts[i].registered = 1
    /\ attempts[i].terminationReason # "manualStop"
    /\ Len(EventsOf(i)) = 1
    /\ EventsOf(i)[1].totalTraversed = 1

\* the port calls made for the tile the attempt is on: setWaterFlow,
\* setWaterFillProgress(0), progress updates, and finalizeWaterSegment last
\* and at most once
TileSequence(a) ==
  LET log == a.tileLog
      n == Len(log)
      finalize == PortCall("finalizeWaterSegment", a.current, -1, a.incoming, a.exit)
  IN /\ n >= 2
     /\ log[1] = PortCall("setWaterFlow", a.current, -1, a.incoming, NoDir)
     /\ log[2] = PortCall("setWaterFillProgress", a.current, 0, NoDir, NoDir)
     /\ \A k \in 3..n :
          \/ /\ log[k].call = "setWaterFillProgress"
             /\ log[k].col = a.current.col
             /\ log[k].row = a.current.row
             /\ log[k].progress \in 0..FillTicks
          \/ k = n /\ log[k] = finalize
     /\ a.status = "awaiting" => log[n] # finalize
     /\ a.status = "done" => log[n] = finalize

\* C14: within an attempt the tiles are animated one after another: the call
\* just before a tile's setWaterFlow is the finalizeWaterSegment of the tile
\* before it, and each tile gets setWaterFlow, setWaterFillProgress(0),
\* progress updates, then finalizeWaterSegment once.
C14_OneTileAtATime ==
  \A i \in Attempts :
    /\ attempts[i].tilesAnimated = 0 => attempts[i].tileLog = <<>>
    /\ attempts[i].tilesAnimated >= 1 => TileSequence(attempts[i])
    /\ attempts[i].tilesAnimated = 1 => attempts[i].precededBy.call = "none"
    /\ attempts[i].tilesAnimated >= 2 =>
         /\ attempts[i].precededBy.call = "finalizeWaterSegment"
         /\ <<attempts[i].precededBy.col, attempts[i].precededBy.row>> # toKey(attempts[i].current)

\* two tiles animated, the second with a partial progress update
C14_Witness ==
  \E i \in Attempts :
    /\ Done(i)
    /\ attempts[i].tilesAnimated = 2
    /\ Len(attempts[i].tileLog) = 6
    /\ attempts[i].tileLog[4].progress = 1
    /\ attempts[i].precededBy.call = "finalizeWaterSegment"

Began(i) == i \in DOMAIN attempts

Ended(i) == i \in DOMAIN attempts /\ attempts[i].status = "done"

\* no attempt is still in its loop, no flow is active, and the flows begun
\* have emitted a completion event
Settled ==
  /\ \A i \in DOMAIN attempts : attempts[i].status = "done"
  /\ ~scoreController.flowActive
  /\ attempts # <<>> => flowEvents # <<>>

\* C15: on a board that does not change, with animation frames that keep
\* coming, every attempt returns and the flow it began gets its completion
\* event: whatever has been started, a state follows in which every attempt
\* has returned and the completion has been emitted.
C15_FlowTerminates == []<>Settled

\* the water went through the cross twice, round the loop, and stopped
C15_Witness ==
  /\ gridData = BoardLoop
  /\ Ended(1)
  /\ attempts[1].tilesAnimated = 6
  /\ Len(flowEvents) = 1
  /\ flowEvents[1].totalTraversed = 5

-----------------------------------------------------------------------------
(* Claims about the ScoreController (checked under SpecScore) *)

\* the max flow visits the documentation gives per kind
ClaimedMaxVisits(kind) ==
  IF kind = "cross" THEN 2 ELSE IF kind \in {"straight", "curve"} THEN 1 ELSE 0

\* the one kind every registerFlowStep call on key k used in this flow
KindAt(k) == CHOOSE kind \in stepCalls[k].kinds : TRUE

SingleKind(k) == Cardinality(stepCalls[k].kinds) = 1

CappedCalls(k) == Min(stepCalls[k].n, ClaimedMaxVisits(KindAt(k)))

RECURSIVE SumCapped(_)
SumCapped(keys) ==
  IF keys = {}
    THEN 0
    ELSE LET k == CHOOSE x \in keys : TRUE
         IN CappedCalls(k) + SumCapped(keys \ {k})

\* C7: within an active flow, N registerFlowStep calls on one coordinate with
\* a kind of max visits M have counted min(N, M) visits; the flow distance is
\* the sum of these and the score gained is that sum times flowTileReward.
C7_MaxVisitCap ==
  scoreController.flowActive =>
    /\ \A k \in DOMAIN stepCalls :
         SingleKind(k) => MapGet(scoreController.currentFlowTiles, k, 0) = CappedCalls(k)
    /\ (\A k \in DOMAIN stepCalls : SingleKind(k)) =>
         /\ scoreController.currentFlowDistance = SumCapped(DOMAIN stepCalls)
         /\ flowGain = SumCapped(DOMAIN stepCalls) * scoreController.flowTileReward

C7_Witness ==
  /\ scoreController.flowActive
  /\ \E k \in DOMAIN stepCalls :
       /\ stepCalls[k].kinds = {"cross"}
       /\ stepCalls[k].n = 3
       /\ scoreController.currentFlowTiles[k] = 2
  /\ DOMAIN stepCalls = {<<0, 0>>}
  /\ flowGain = 20

\* C8: with allowNegativeScore = false the score is never negative, and a
\* replacement penalty larger than the score leaves the score at 0.
C8_ScoreFloor ==
  ~scoreController.allowNegativeScore =>
    /\ scoreController.score >= 0
    /\ (lastCall.op = "handlePipePlacement" /\ lastCall.flag
          /\ scoreController.replacementPenalty > lastCall.scoreBefore)
         => scoreController.score = 0

C8_Witness ==
  /\ ~scoreController.allowNegativeScore
  /\ lastCall.op = "handlePipePlacement"
  /\ lastCall.flag
  /\ lastCall.scoreBefore > 0
  /\ scoreController.replacementPenalty > lastCall.scoreBefore
  /\ scoreController.score = 0

\* C10: completeFlow(reason) during an active flow emits one event with the
\* reason passed, totalTraversed = the steps accepted since the last
\* beginFlow, targetLength = the current target and goalAchieved exactly when
\* totalTraversed >= targetLength.
C10_CompletionPayload ==
  (lastCall.op = "completeFlow" /\ lastCall.flag) =>
    /\ Len(flowEvents) = lastCall.eventsBefore + 1
    /\ LastOf(flowEvents).reason = lastCall.reason
    /\ LastOf(flowEvents).totalTraversed = acceptedSteps
    /\ LastOf(flowEvents).targetLength = scoreController.targetFlowLength
    /\ LastOf(flowEvents).goalAchieved = (acceptedSteps >= scoreController.targetFlowLength)

C10_Witness ==
  /\ lastCall.op = "completeFlow"
  /\ lastCall.flag
  /\ Len(flowEvents) = 1
  /\ flowEvents[1].totalTraversed = 2
  /\ flowEvents[1].targetLength = 2
  /\ flowEvents[1].goalAchieved

\* C11: while no flow is active, registerFlowStep and completeFlow change no
\* state of the score controller (score, flow distance, visit counts, flag)
\* and emit no completion event.
C11_InactiveNoOps ==
  [][(/\ opCount' = opCount + 1
      /\ lastCall'.op \in {"registerFlowStep", "completeFlow"}
      /\ ~scoreController.flowActive)
       => (/\ scoreController' = scoreController
           /\ flowEvents' = flowEvents)]_vars

\* a second completeFlow, right after the one that completed a flow, and a
\* registerFlowStep outside a flow
C11_Witness ==
  /\ lastCall.op = "completeFlow"
  /\ ~lastCall.flag
  /\ lastCall.eventsBefore = 1
  /\ Len(flowEvents) = 1
  /\ scoreController.score = 10

\* the largest integer n with 2n <= halves
FloorOfHalves(halves) ==
  CHOOSE n \in -1..(MaxTarget + 1) : 2 * n <= halves /\ halves < 2 * n + 2

\* C13: the target flow length is an integer >= 1 in every state;
\* setTargetFlowLength(x) leaves it unchanged when x is not finite and sets
\* it to max(1, floor(x)) otherwise.
C13_TargetLength ==
  /\ [](scoreController.targetFlowLength \in Nat /\ scoreController.targetFlowLength >= 1)
  /\ [][(opCount' = opCount + 1 /\ lastCall'.op = "setTargetFlowLength")
         => scoreController'.targetFlowLength =
              IF ~lastCall'.flag
                THEN scoreController.targetFlowLength
                ELSE IF FloorOfHalves(lastCall'.halves) < 1
                  THEN 1
                  ELSE FloorOfHalves(lastCall'.halves)]_vars

\* setTargetFlowLength(2.5) stored 2
C13_Witness ==
  /\ lastCall.op = "setTargetFlowLength"
  /\ lastCall.flag
  /\ lastCall.halves = 5
  /\ scoreController.targetFlowLength = 2

-----------------------------------------------------------------------------
(* Claims about placements (checked under SpecGame) *)

\* the pipe a tile state holds: none for a fresh or emptied tile
PipeAt(state) == IF HasPipe(state) THEN <<state.kind, RotOf(state)>> ELSE <<"none", 0>>

Placed(i) == placements[i].stage = "beforeShift" /\ placements'[i].stage = "placed"

PenalisedScore(sc) ==
  IF sc.allowNegativeScore \/ sc.score - sc.replacementPenalty >= 0
    THEN sc.score - sc.replacementPenalty
    ELSE 0

WaterEntered ==
  DOMAIN hasFlowFrom
    \cup {toKey(attempts[i].current) : i \in {j \in DOMAIN attempts : attempts[j].status = "awaiting"}}

\* C16: no step changes the kind or rotation of a tile that water has
\* entered in the current flow.
C16_NoChangeUnderWater ==
  [][\A k \in WaterEntered :
       k \in DOMAIN gridData.cells =>
         /\ gridData'.cells[k].kind = gridData.cells[k].kind
         /\ gridData'.cells[k].rot = gridData.cells[k].rot]_vars

\* C17: while a flow is active (from beginFlow to the completion event) no
\* step changes the kind or rotation of any cell.
C17_NoPlacementDuringFlow ==
  [][scoreController.flowActive =>
       \A k \in DOMAIN gridData.cells :
         /\ gridData'.cells[k].kind = gridData.cells[k].kind
         /\ gridData'.cells[k].rot = gridData.cells[k].rot]_vars

C19_PlacedIsQueueFront ==
  /\ \A k \in DOMAIN shifts : shifts[k].placed = shifts[k].removed
  /\ \A k, l \in DOMAIN shifts : shifts[k].placed.id = shifts[l].placed.id => k = l

\* a step of placement i on its way to `return false`
Abandoned(i) ==
  /\ placements'[i].stage # placements[i].stage
  /\ placements'[i].stage \in {"restore", "failed"}

\* C20: a placement whose tile.setPipe did not display the pipe is never
\* completed, and the steps by which a placement is abandoned after a failure
\* leave the cell holding the same pipe (or none), the queue and the score as
\* they were.
C20_FailureChangesNothing ==
  [][\A i \in DOMAIN placements :
       /\ Placed(i) => placements[i].shown
       /\ Abandoned(i) =>
            /\ PipeAt(StateAt(gridData', placements[i].coord)) = PipeAt(StateAt(gridData, placements[i].coord))
            /\ pipesQueue' = pipesQueue
            /\ scoreController'.score = scoreController.score]_vars

-----------------------------------------------------------------------------
(* Board building and the start tile *)

\* C22: a placed start tile lies on a cell that is not blocked, has exactly
\* one port, and that port points at a cell inside the grid that is not
\* blocked.
C22_StartTileValid ==
  ~startTile.none =>
    LET ports == getPorts("start", RotOf(StateAt(gridData, startTile)))
        exit == getNextCoordinates(startTile, ports[1])
    IN /\ StateAt(gridData, startTile).kind = "start"
       /\ ~StateAt(gridData, startTile).blocked
       /\ Len(ports) = 1
       /\ InGrid(gridData, exit)
       /\ ~StateAt(gridData, exit).blocked

\* a start tile placed next to a blocked cell, its exit turned away from it
C22_Witness ==
  /\ lastCall.op = "placeStartTile"
  /\ ~startTile.none
  /\ RotOf(StateAt(gridData, startTile)) # 0
  /\ \E dir \in {"top", "right", "bottom", "left"} :
       LET c == getNextCoordinates(startTile, dir)
       IN InGrid(gridData, c) /\ StateAt(gridData, c).blocked

\* C23: buildInitialBoard with rows <= 0 or cols <= 0 returns an empty grid
\* and an empty blocked list, and while no start tile is set startWaterFlow()
\* begins no flow: no attempt, no frame, no water on any tile, no flow opened
\* on the score and no completion event.
C23_SoftFailuresAreInert ==
  /\ (/\ lastCall.op \in {"buildInitialBoard", "placeStartTile"}
      /\ lastCall.rows <= 0 \/ lastCall.cols <= 0) =>
       /\ gridData.rows = 0
       /\ gridData.cells = EmptyMap
       /\ lastCall.blockedTiles = <<>>
  /\ startTile.none =>
       /\ ~isFlowing
       /\ attempts = <<>>
       /\ pendingFrames = <<>>
       /\ activeAnimationFrame = 0
       /\ flowEvents = <<>>
       /\ ~scoreController.flowActive
       /\ \A k \in DOMAIN tiles : tiles[k].fillProgress = 0

\* an empty board on which placeStartTile found no cell: startWaterFlow() is
\* called with no start tile
C23_Witness ==
  /\ lastCall.op = "placeStartTile"
  /\ lastCall.rows <= 0
  /\ startTile.none
  /\ ENABLED StartWithoutStartTile

\* C21: once a board is built exactly one cell holds kind = start, whatever
\* is placed afterwards.
C21_ExactlyOneStart ==
  Cardinality({k \in DOMAIN gridData.cells : gridData.cells[k].kind = "start"}) = 1

\* C24: after construction and after any peek, advance and snapshot calls
\* the queue holds exactly the configured number of items, each with a kind
\* of the allowed list, which is neither start nor empty, and a rotation in
\* 0..3.
C24_QueueSizeAndItems ==
  QueueConstructed =>
    /\ Len(pipesQueue) = lastCall.size
    /\ \A i \in DOMAIN pipesQueue :
         /\ \E a \in DOMAIN lastCall.allowedPipes : pipesQueue[i].kind = lastCall.allowedPipes[a]
         /\ pipesQueue[i].kind \notin {"start", "empty"}
         /\ pipesQueue[i].rot \in 0..3

\* a queue of several items after as many advances as it has items, then a
\* snapshot
C24_Witness ==
  /\ lastCall.op = "snapshotPipes"
  /\ lastCall.size > 1
  /\ opCount >= lastCall.size
  /\ lastCall.snapshot = pipesQueue
  /\ \E i, j \in DOMAIN pipesQueue : pipesQueue[i].kind # pipesQueue[j].kind

\* C25: peek returns the front item and leaves the queue as it is; advance
\* returns the item that was at the front, and leaves the other items in
\* their order, moved up by one, with one newly created item at the back.
C25_PeekAndAdvance ==
  [][/\ (lastCall'.op = "peekPipe" /\ lastCall' # lastCall) =>
          /\ lastCall'.returned = pipesQueue[1]
          /\ pipesQueue' = pipesQueue
     /\ (lastCall'.op = "popAndPushPipe" /\ opCount' # opCount) =>
          /\ lastCall'.returned = pipesQueue[1]
          /\ Len(pipesQueue') = Len(pipesQueue)
          /\ \A i \in 1..(Len(pipesQueue) - 1) : pipesQueue'[i] = pipesQueue[i + 1]
          /\ \A i \in DOMAIN pipesQueue :
               pipesQueue'[Len(pipesQueue')].id # pipesQueue[i].id]_vars

\* an advance has returned the item a peek before it returned, from a queue
\* whose items differ
C25_Witness ==
  /\ lastCall.op = "popAndPushPipe"
  /\ lastCall.size > 1
  /\ lastCall.returned.id = 2
  /\ lastCall.returned.kind # pipesQueue[1].kind

\* C26: the constructor of a pipe queue throws for a size below 1 and for an
\* empty list of allowed kinds, and the constructor of a game controller
\* throws when rows or cols is not a positive integer and when the allowed
\* pipes hold no kind other than start; no queue exists after the throw.
C26_InvalidConfigurationThrows ==
  /\ (lastCall.op = "PipesQueue" /\ (lastCall.size < 1 \/ Len(lastCall.allowedPipes) = 0)) =>
       /\ lastCall.threw
       /\ pipesQueue = <<>>
  /\ (/\ lastCall.op = "GameController"
      /\ \/ lastCall.rows2 <= 0 \/ lastCall.rows2 % 2 # 0
         \/ lastCall.cols2 <= 0 \/ lastCall.cols2 % 2 # 0
         \/ \A a \in DOMAIN lastCall.allowedPipes : lastCall.allowedPipes[a] = "start") =>
       lastCall.threw

\* a game controller with a valid grid whose only allowed pipe is start
C26_Witness ==
  /\ lastCall.op = "GameController"
  /\ lastCall.rows2 = 4
  /\ lastCall.cols2 = 2
  /\ lastCall.size > 0
  /\ lastCall.allowedPipes = <<"start">>
  /\ lastCall.threw

\* C28: with a generator that produces a fixed sequence, every
\* buildInitialBoard call with the same dimensions and percentage returns
\* the grid and the blocked list this call returned, and every PipesQueue
\* construction with the same size and allowed kinds holds the same items.
C28_DeterministicInTheSequence ==
  /\ (lastCall.op = "buildInitialBoard" /\ lastCall.rng.seeded) =>
       \A b \in buildInitialBoard(lastCall.rows, lastCall.cols, lastCall.pct, lastCall.rng) :
         /\ b.gridData = gridData
         /\ b.blockedTiles = lastCall.blockedTiles
  /\ (lastCall.op = "PipesQueue" /\ ~lastCall.threw /\ lastCall.rng.seeded) =>
       \A q \in PipesQueue(lastCall.size, lastCall.rng, lastCall.allowedPipes) :
         q.pipes = pipesQueue

\* a seeded build whose shuffle moved the cells: two cells blocked, not the
\* first two of the grid
C28_Witness ==
  /\ lastCall.op = "buildInitialBoard"
  /\ lastCall.rng.seeded
  /\ Len(lastCall.blockedTiles) = 2
  /\ ~StateAt(gridData, Coord(0, 0)).blocked

\* C27: for rows, cols > 0 buildInitialBoard blocks exactly
\* min(floor(rows * cols * pct), rows * cols - 1) distinct cells, the cells
\* flagged blocked in the grid are those of the returned list, and at least
\* one cell is left unblocked.
C27_BlockedCount ==
  (/\ lastCall.op \in {"buildInitialBoard", "placeStartTile"}
   /\ lastCall.rows > 0
   /\ lastCall.cols > 0) =>
    LET total == lastCall.rows * lastCall.cols
        blockedTiles == lastCall.blockedTiles
        BlockedCells == {k \in DOMAIN gridData.cells : gridData.cells[k].blocked}
    IN /\ Len(blockedTiles) = Min((total * lastCall.pct) \div PctDenom, total - 1)
       /\ \A i, j \in DOMAIN blockedTiles : blockedTiles[i] = blockedTiles[j] => i = j
       /\ BlockedCells = {toKey(blockedTiles[i]) : i \in DOMAIN blockedTiles}
       /\ Cardinality(BlockedCells) = Len(blockedTiles)
       /\ DOMAIN gridData.cells = (0..(lastCall.cols - 1)) \X (0..(lastCall.rows - 1))
       /\ \E k \in DOMAIN gridData.cells : ~gridData.cells[k].blocked

\* a board asked to be blocked entirely: all cells but one are blocked
C27_Witness ==
  /\ lastCall.op = "buildInitialBoard"
  /\ lastCall.rows * lastCall.cols > 2
  /\ lastCall.pct = PctDenom
  /\ Cardinality({k \in DOMAIN gridData.cells : gridData.cells[k].blocked})
       = lastCall.rows * lastCall.cols - 1

-----------------------------------------------------------------------------
(* Connectivity analyzer *)

\* C30: findLongestConnectedPath returns a path that repeats no coordinate,
\* whose tiles hold a pipe and are not blocked, and whose consecutive tiles
\* are neighbours each with a port facing the other; no such path of the
\* grid is longer; the result is empty when no tile holds a pipe.
C30_LongestConnectedPath ==
  lastCall.op = "findLongestConnectedPath" =>
    LET Occupied(c) == HasPipe(StateAt(gridData, c)) /\ ~StateAt(gridData, c).blocked
        PortsAt(c) == getPorts(StateAt(gridData, c).kind, RotOf(StateAt(gridData, c)))
        Connected(a, b) ==
          \E dir \in {"top", "right", "bottom", "left"} :
            /\ getNextCoordinates(a, dir) = b
            /\ Includes(PortsAt(a), dir)
            /\ Includes(PortsAt(b), OPPOSED_DIRS[dir])
        IsPath(p) ==
          /\ \A i, j \in DOMAIN p : p[i] = p[j] => i = j
          /\ \A i \in DOMAIN p : InGrid(gridData, p[i]) /\ Occupied(p[i])
          /\ \A i \in 1..(Len(p) - 1) : Connected(p[i], p[i + 1])
        cells == {Coord(k[1], k[2]) : k \in DOMAIN gridData.cells}
    IN /\ IsPath(lastCall.path)
       /\ \A n \in 1..Cardinality(cells) : \A p \in [1..n -> cells] :
            IsPath(p) => n <= Len(lastCall.path)
       /\ (\A c \in cells : ~Occupied(c)) => lastCall.path = <<>>

-----------------------------------------------------------------------------
(* Stages *)

-----------------------------------------------------------------------------
(* Ports and exit resolution *)

\* C31: getPorts(kind, r) has the length of the kind's base port list and
\* its i-th port is the i-th base port turned r quarter turns clockwise in
\* the cycle top, right, bottom, left; so a straight pipe has the ports left
\* and right at r = 0 and r = 2 and top and bottom at r = 1 and r = 3, a
\* cross has all four directions at every rotation, and empty has no ports.
C31_PortsRotateClockwise ==
  lastCall.op = "getPorts" =>
    LET Clockwise(d) == CASE d = "top" -> "right"
                          [] d = "right" -> "bottom"
                          [] d = "bottom" -> "left"
                          [] d = "left" -> "top"
        Turned(d, r) == CASE r = 0 -> d
                          [] r = 1 -> Clockwise(d)
                          [] r = 2 -> Clockwise(Clockwise(d))
                          [] r = 3 -> Clockwise(Clockwise(Clockwise(d)))
        base == getBasePorts(lastCall.kind)
        ports == lastCall.ports
        PortSet == {ports[i] : i \in DOMAIN ports}
    IN /\ Len(ports) = Len(base)
       /\ \A i \in DOMAIN base : ports[i] = Turned(base[i], lastCall.rot)
       /\ lastCall.kind = "straight" =>
            PortSet = IF lastCall.rot \in {0, 2} THEN {"left", "right"} ELSE {"top", "bottom"}
       /\ lastCall.kind = "cross" => PortSet = Dir
       /\ lastCall.kind = "empty" => ports = <<>>

\* getPorts was called for a curve turned three times
C31_Witness ==
  /\ lastCall.op = "getPorts"
  /\ lastCall.kind = "curve"
  /\ lastCall.rot = 3
  /\ lastCall.ports = <<"top", "right">>

\* C32: a cross entered from d with the exits U already used leaves through
\* the direction opposite d when that is not in U; otherwise through the
\* first of its rotated ports that is neither d nor the opposite nor in U;
\* and through the opposite again when there is no such port.
C32_CrossExit ==
  (lastCall.op = "determineExitDirection" /\ lastCall.kind = "cross" /\ lastCall.incoming \in Dir) =>
    LET d == lastCall.incoming
        U == lastCall.filledDirs
        opposite == DIRS[((IndexOfDir(d) + 2) % 4) + 1]
        ports == getPorts("cross", lastCall.rot)
        free == {i \in DOMAIN ports : ports[i] \notin ({d, opposite} \cup U)}
    IN IF opposite \notin U
         THEN lastCall.exit = opposite
         ELSE IF free # {}
           THEN \E i \in free : lastCall.exit = ports[i] /\ \A j \in free : i <= j
           ELSE lastCall.exit = opposite

\* a turned cross entered from the left whose right exit was used: it leaves
\* through the first free arm of its rotated ports
C32_Witness ==
  /\ lastCall.op = "determineExitDirection"
  /\ lastCall.kind = "cross"
  /\ lastCall.rot = 1
  /\ lastCall.incoming = "left"
  /\ lastCall.filledDirs = {"right"}
  /\ lastCall.exit = "bottom"

\* C33: a straight or curve entered from one of its ports d with the exits U
\* already used leaves through the first of its rotated ports that is not d
\* and not in U; when there is none, through the first port that is not d;
\* when there is none, through d.
C33_StraightAndCurveExit ==
  (/\ lastCall.op = "determineExitDirection"
   /\ lastCall.kind \in {"straight", "curve"}
   /\ Includes(getPorts(lastCall.kind, lastCall.rot), lastCall.incoming)) =>
    LET d == lastCall.incoming
        U == lastCall.filledDirs
        ports == getPorts(lastCall.kind, lastCall.rot)
        unused == {i \in DOMAIN ports : ports[i] # d /\ ports[i] \notin U}
        others == {i \in DOMAIN ports : ports[i] # d}
        First(S) == CHOOSE i \in S : \A j \in S : i <= j
    IN lastCall.exit = IF unused # {} THEN ports[First(unused)]
                       ELSE IF others # {} THEN ports[First(others)]
                       ELSE d

\* a curve entered from its first port whose other port was used before
C33_Witness ==
  /\ lastCall.op = "determineExitDirection"
  /\ lastCall.kind = "curve"
  /\ lastCall.rot = 2
  /\ lastCall.incoming = "left"
  /\ lastCall.filledDirs = {"top"}
  /\ lastCall.exit = "top"

\* C34: determineExitDirection yields no exit exactly when the tile is not a
\* start tile and the entry direction is absent or not among the tile's
\* rotated ports, and a start tile leaves through its single rotated port
\* whatever the entry direction; a flow attempt ends with noExit exactly
\* when it came to such a tile, and it has not begun to animate that tile.
C34_NoExit ==
  /\ lastCall.op = "determineExitDirection" =>
       LET ports == getPorts(lastCall.kind, lastCall.rot)
       IN /\ lastCall.exit = NoDir <=>
               /\ lastCall.kind # "start"
               /\ lastCall.incoming = NoDir \/ ~Includes(ports, lastCall.incoming)
          /\ lastCall.kind = "start" => Len(ports) = 1 /\ lastCall.exit = ports[1]
  /\ \A i \in DOMAIN attempts :
       LET a == attempts[i]
           state == StateAt(gridData, a.current)
           ports == getPorts(state.kind, RotOf(state))
       IN a.status = "done" =>
            /\ a.terminationReason = "noExit" <=>
                 /\ HasPipe(state)
                 /\ state.kind # "start"
                 /\ a.incoming = NoDir \/ ~Includes(ports, a.incoming)
            /\ a.terminationReason = "noExit" =>
                 \/ a.tileLog = <<>>
                 \/ a.tileLog[Len(a.tileLog)].call = "finalizeWaterSegment"

\* a flow attempt that ended with noExit on a straight pipe at the start
\* coordinate, before any tile was animated
C34_Witness ==
  \E i \in DOMAIN attempts :
    /\ attempts[i].status = "done"
    /\ attempts[i].terminationReason = "noExit"
    /\ StateAt(gridData, attempts[i].current).kind = "straight"
    /\ attempts[i].tilesAnimated = 0

-----------------------------------------------------------------------------
(* Flow attempts one after the other *)

\* C35: a startWaterFlow() that begins a flow leaves the used-exit memory
\* empty, the visit counts empty and the flow distance zero, and the score
\* and the target as they were; and two attempts that follow each other on
\* the board, each begun when every earlier one had returned and neither
\* stopped, animate the same tiles in the same order and report the same
\* reason and the same totalTraversed.
C35_CleanStart ==
  [][/\ Len(attempts') > Len(attempts) =>
          /\ hasFlowFrom' = EmptyMap
          /\ scoreController'.currentFlowTiles = EmptyMap
          /\ scoreController'.currentFlowDistance = 0
          /\ scoreController'.score = scoreController.score
          /\ scoreController'.targetFlowLength = scoreController.targetFlowLength
     /\ \A i \in DOMAIN attempts' :
          (/\ i + 1 \in DOMAIN attempts'
           /\ \A j \in {i, i + 1} :
                /\ attempts'[j].status = "done"
                /\ attempts'[j].alone
                /\ ~attempts'[j].stopRequested) =>
            LET first == SelectSeq(flowEvents', LAMBDA e : e.attempt = i)
                second == SelectSeq(flowEvents', LAMBDA e : e.attempt = i + 1)
            IN /\ attempts'[i + 1].visited = attempts'[i].visited
               /\ attempts'[i + 1].terminationReason = attempts'[i].terminationReason
               /\ Len(first) = 1
               /\ Len(second) = 1
               /\ second[1].reason = first[1].reason
               /\ second[1].totalTraversed = first[1].totalTraversed]_vars

\* two attempts, one after the other, that each went through the cross and
\* the tile behind it
C35_Witness ==
  /\ Len(attempts) >= 2
  /\ \A j \in {1, 2} :
       /\ attempts[j].status = "done"
       /\ attempts[j].alone
       /\ ~attempts[j].stopRequested
       /\ [n \in DOMAIN attempts[j].visited |-> attempts[j].visited[n][1]] = <<0, 1, 2>>
  /\ StateAt(gridData, Coord(1, 0)).kind = "cross"

-----------------------------------------------------------------------------
(* The board after a reset *)

-----------------------------------------------------------------------------
(* The path of one flow attempt *)

\* C37: on a board whose tiles do not change a flow attempt enters no tile
\* twice from the same direction: it goes through a straight or a curve at
\* most once and through a cross at most twice, it does not come back to
\* the start tile, it leaves no tile twice in the same direction, and no
\* flow step it reports is turned down by the cap on visits.
C37_TraversalIsATrail ==
  /\ \A i \in DOMAIN attempts :
       LET v == attempts[i].visited
           At(n) == <<v[n][1], v[n][2]>>
           Visits(n) == Cardinality({m \in DOMAIN v : At(m) = At(n)})
           kind(n) == gridData.cells[At(n)].kind
       IN \A n \in DOMAIN v :
            /\ \A m \in DOMAIN v :
                 (m # n /\ At(m) = At(n)) => v[m][3] # v[n][3] /\ v[m][4] # v[n][4]
            /\ kind(n) \in {"straight", "curve"} => Visits(n) <= 1
            /\ kind(n) = "cross" => Visits(n) <= 2
            /\ kind(n) = "start" => Visits(n) <= 1
  /\ \A k \in DOMAIN stepCalls :
       \A kind \in stepCalls[k].kinds : stepCalls[k].n <= getMaxFlowVisits(kind)

-----------------------------------------------------------------------------
(* The tiles the water enters *)

-----------------------------------------------------------------------------
(* The tile in flight when a stop is observed *)

\* attempt i began after every earlier one had returned, and returned before
\* the next one began
NotOverlapped(i) ==
  /\ attempts[i].alone
  /\ i < Len(attempts) => attempts[i + 1].alone

\* C39: an attempt that ended with manualStop did not count the tile whose
\* animation was in flight when it observed the stop: it added an exit to the
\* used-exit memory and registered a flow step only for the tiles it had
\* completed before, the memory does not hold the exit of the tile in
\* flight, and the totalTraversed it reported is the number of steps of the
\* tiles completed before.
C39_StoppedTileNotCounted ==
  \A i \in DOMAIN attempts :
    LET a == attempts[i]
        v == a.visited
        At(n) == <<v[n][1], v[n][2]>>
        completed == 1..(Len(v) - 1)
        steps == Cardinality({n \in completed : gridData.cells[At(n)].kind # "start"})
    IN (a.status = "done" /\ a.terminationReason = "manualStop") =>
         /\ v # <<>>
         /\ At(Len(v)) = toKey(a.current)
         /\ a.completedNonStart = Cardinality({n \in completed : At(n) # toKey(startTile)})
         /\ a.registered = steps
         /\ (NotOverlapped(i) /\ i = Len(attempts)) =>
              /\ At(Len(v)) \in DOMAIN hasFlowFrom =>
                   v[Len(v)][4] \notin dirSets[hasFlowFrom[At(Len(v))]]
              /\ DOMAIN hasFlowFrom = {At(n) : n \in completed}
              /\ \A k \in DOMAIN stepCalls :
                   stepCalls[k].n = Cardinality({n \in completed : At(n) = k})
         /\ NotOverlapped(i) =>
              \A n \in DOMAIN flowEvents :
                flowEvents[n].attempt = i =>
                  /\ flowEvents[n].reason = "manualStop"
                  /\ flowEvents[n].totalTraversed = steps

\* an attempt on its own was stopped on its third tile: two tiles completed,
\* one step reported
C39_Witness ==
  \E i \in DOMAIN attempts :
    /\ attempts[i].status = "done"
    /\ attempts[i].terminationReason = "manualStop"
    /\ NotOverlapped(i)
    /\ Len(attempts[i].visited) = 3
    /\ attempts[i].registered = 1
    /\ \E n \in DOMAIN flowEvents :
         flowEvents[n].attempt = i /\ flowEvents[n].totalTraversed = 1

-----------------------------------------------------------------------------
(* The score over flows and stages *)

\* C40: the score is changed only by an accepted flow step (by the reward),
\* by the penalty of a replacement and by resetScore; beginFlow,
\* completeFlow, setStage and advanceStage with the setTargetFlowLength they
\* make, and resetStage leave it as it was.
C40_ScoreCarriesOver ==
  [][LET before == scoreController.score
         after == scoreController'.score
         call == opCount' = opCount + 1
         penalised == before - scoreController.replacementPenalty
     IN /\ (call /\ lastCall'.op \in {"beginFlow", "completeFlow"}) => after = before
        /\ (lastCall'.op = "setStage" /\ (lastCall.op # "setStage" \/ stage' # stage)) =>
             after = before
        /\ (lastCall'.op = "resetStage" /\ lastCall.op = "setStage") => after = before
        /\ scoreController'.targetFlowLength # scoreController.targetFlowLength =>
             after = before
        /\ after # before =>
             \/ /\ call
                /\ lastCall'.op = "registerFlowStep"
                /\ scoreController.flowActive
                /\ acceptedSteps' = acceptedSteps + 1
                /\ after = before + scoreController.flowTileReward
             \/ /\ call
                /\ lastCall'.op = "handlePipePlacement"
                /\ lastCall'.flag
                /\ after = (IF penalised < 0 THEN 0 ELSE penalised)
             \/ /\ ~call
                /\ lastCall' = lastCall
                /\ stage' = stage
                /\ after = 0]_vars

\* a flow of stage 1 earned the reward of one tile, a replacement took the
\* penalty off, the flow completed, and the game went on to stage 2 with
\* its longer target and a new board: the score is still what it was
C40_Witness ==
  /\ lastCall.op = "resetStage"
  /\ stage = 2
  /\ scoreController.targetFlowLength = 2
  /\ Len(flowEvents) = 1
  /\ opCount = 4
  /\ scoreController.score = 5

====
